---- MODULE Spec2Model ----
(***************************************************************************)
(* Pattern routing decision engine: SemanticRoute, the eight-expert        *)
(* scoring, the Byzantine consensus validation, the confidence calibration *)
(* and the fallback chain of PHASE2_ROUTING_ALGORITHMS (src/unnamed/       *)
(* part_003).  Numbers of [0,1] are integers in units of 1/One.            *)
(***************************************************************************)
EXTENDS Integers, Sequences, FiniteSets, TLC

\* ------------------------------------------------------------------------
\* Bounds of the model
\* ------------------------------------------------------------------------
MaxRequests == 2
MaxUpdates == 1
MaxSelections == 4
MaxExecutions == 3
\* embedCalls is counted up to this bound and stays there
MaxEmbedCalls == 5
\* the clock advances this many times
MaxTicks == 3
\* patterns loaded by the embedding script
MaxPatterns == 3

\* ------------------------------------------------------------------------
\* Representation and program constants
\* ------------------------------------------------------------------------
One == 10000
NULL == "NULL"
\* an absent (NULL) number
NONE == -1
Agents == {"a1", "a2", "a3"}
AgentOrder == <<"a1", "a2", "a3">>

ConsensusTimeoutMs == 50
TaskTimeoutMs == 50
Validators == 5
RequiredAgreement == 3

\* ------------------------------------------------------------------------
\* Utility functions
\* ------------------------------------------------------------------------
\* variant: the value passes through unchanged
CLAMP_Unbounded(value, min, max) == value

CLAMP(value, min, max) ==
  IF value < min THEN min
  ELSE IF value > max THEN max
  ELSE value

MaxOf(S) == CHOOSE x \in S : \A y \in S : y <= x

Range(s) == {s[i] : i \in 1..Len(s)}

RECURSIVE SeqSum(_)
SeqSum(s) == IF s = <<>> THEN 0 ELSE Head(s) + SeqSum(Tail(s))

\* SIZE(INTERSECTION(list, set)) / COUNT(s IN list WHERE s IN set)
CountIn(list, set) == Cardinality({i \in 1..Len(list) : list[i] \in set})

\* s.trim() on the raw segments that occur in the modelled metadata
Trim(seg) ==
  CASE seg = " auth" -> "auth"
    [] seg = "db "   -> "db"
    [] OTHER         -> seg

\* EXTRACT_SKILLS: metadata["skills"] is absent or a comma-separated string,
\* held as the sequence of its raw segments; split then trim.
EXTRACT_SKILLS(metadata) ==
  IF metadata.skills.present
  THEN [i \in 1..Len(metadata.skills.segs) |-> Trim(metadata.skills.segs[i])]
  ELSE <<>>

EXTRACT_PATTERN_TYPE(metadata) ==
  IF metadata.type # NULL THEN metadata.type
  ELSE IF metadata.category # NULL THEN metadata.category
  ELSE "unknown"

EXTRACT_PRIORITY(metadata) ==
  IF metadata.priority # NULL THEN metadata.priority ELSE "medium"

\* success rate of a profile for a pattern type, default entry otherwise
SuccessRateOf(profile, patternType) ==
  IF patternType \in DOMAIN profile.success_rate_by_type
  THEN profile.success_rate_by_type[patternType]
  ELSE profile.success_rate_default

\* ------------------------------------------------------------------------
\* State
\* ------------------------------------------------------------------------
VARIABLES
  profiles,          \* ProfileStore: agent id -> AgentCapabilityProfile
  cache,             \* decision cache: request-derived key -> decision
  altCache,          \* alternatives cached per pattern id
  rrPointer,         \* persistent rotation pointer of ROUND_ROBIN_SELECT
  rrSelections,      \* agents picked by the latest round_robin selections
  auditTrail,        \* ids of the decisions written by LOG_ROUTING_DECISION
  agreementCount,    \* value behind GET_VALIDATOR_AGREEMENT_COUNT()
  expertCache,       \* "expert_scores:" + agent id -> expert score vector
  peer,              \* a second coordinating task routing another request
  embeddingCache,    \* pattern ids whose embedding EMBED_PATTERN has cached
  embedCalls,        \* embedding API calls made for the current request
  updaters,          \* the tasks running UPDATE_AGENT_PROFILE_ON_EXECUTION
  now,               \* CURRENT_TIMESTAMP(), in seconds
  script,            \* insertPatterns of embed-daxiom-patterns.js: its locals
  reqCount,          \* route invocations started so far
  pc,                \* position of the coordinating task
  req,               \* the request being routed (pattern, constraints, context)
  faults,            \* failures the environment injected into this route
  candidates,        \* [(agent_id, similarity)] of the search phase
  agentProfiles,     \* profile snapshot loaded in phase 5
  agentScores,       \* agent id -> final score (NULL when not scored)
  rankedAgents,      \* eligible agents sorted by score
  taskOutcome,       \* what each spawned validator task yields
  validatorResults,  \* collected results, in task order
  elapsed,           \* CURRENT_TIME_MS() - consensusStartTime
  consensusResult,   \* NONE / APPROVE / ESCALATE / TIMEOUT / ERROR
  fbIndex,           \* position in fallbackChain
  failureReason,     \* reason handed to APPLY_FALLBACK_STRATEGY
  path,              \* which path produced the outcome of the last route
  decision,          \* decision returned by the last route (NULL if none)
  prev               \* request, path and decision of the route before

vars == <<profiles, cache, altCache, rrPointer, rrSelections, auditTrail,
          agreementCount, expertCache, peer, embeddingCache, embedCalls,
          updaters, now, script, reqCount, pc, req, faults, candidates,
          agentProfiles, agentScores,
          rankedAgents, taskOutcome, validatorResults, elapsed,
          consensusResult, fbIndex, failureReason, path, decision, prev>>

\* store lookup used by EXPERT_RECENCY, VALIDATE_SUCCESS_RATE,
\* ROUTE_BY_METADATA and BUILD_FALLBACK_DECISION
GET_SUCCESS_RATE(agent_id, patternType) ==
  SuccessRateOf(profiles[agent_id], patternType)

\* ------------------------------------------------------------------------
\* The eight experts
\* ------------------------------------------------------------------------
ExpertNames == <<"similarity", "metadata", "success_rate", "recency",
                 "team_diversity", "latency_fit", "context_relevance",
                 "confidence_calibration">>

\* weights in percent
weights == [similarity |-> 25, metadata |-> 15, success_rate |-> 20,
            recency |-> 10, team_diversity |-> 10, latency_fit |-> 10,
            context_relevance |-> 7, confidence_calibration |-> 3]

\* index (0-based rank) of the first candidate with this agent id, or NONE
RankOf(agentId, cands) ==
  IF \E i \in 1..Len(cands) : cands[i].agent_id = agentId
  THEN (CHOOSE i \in 1..Len(cands) :
          /\ cands[i].agent_id = agentId
          /\ \A j \in 1..(i-1) : cands[j].agent_id # agentId) - 1
  ELSE NONE

EXTRACT_SIMILARITY_SCORES(cands) == [i \in 1..Len(cands) |-> cands[i].similarity]

\* variant: no discount for the position in the list
EXPERT_SIMILARITY_NoDiscount(agentId, cands, allSimilarities) ==
  LET agentRank == RankOf(agentId, cands) IN
  IF agentRank = NONE THEN 0
  ELSE
    LET similarityScore == cands[agentRank + 1].similarity
        maxSimilarity   == MaxOf(Range(allSimilarities))
        normalizedScore == IF maxSimilarity = 0 THEN 0
                           ELSE (similarityScore * One) \div maxSimilarity
    IN CLAMP(normalizedScore, 0, One)

\* variant: an all-zero candidate set normalizes to the full score
EXPERT_SIMILARITY_ZeroAsFull(agentId, cands, allSimilarities) ==
  LET agentRank == RankOf(agentId, cands) IN
  IF agentRank = NONE THEN 0
  ELSE
    LET similarityScore == cands[agentRank + 1].similarity
        maxSimilarity   == MaxOf(Range(allSimilarities))
        normalizedScore == IF maxSimilarity = 0 THEN One
                           ELSE (similarityScore * One) \div maxSimilarity
        rankDiscount    == One - (agentRank * 200)
        finalScore      == (normalizedScore * rankDiscount) \div One
    IN CLAMP(finalScore, 0, One)

EXPERT_SIMILARITY(agentId, cands, allSimilarities) ==
  LET agentRank == RankOf(agentId, cands) IN
  IF agentRank = NONE THEN 0
  ELSE
    LET similarityScore == cands[agentRank + 1].similarity
        maxSimilarity   == MaxOf(Range(allSimilarities))
        normalizedScore == IF maxSimilarity = 0 THEN 0
                           ELSE (similarityScore * One) \div maxSimilarity
        rankDiscount    == One - (agentRank * 200)
        finalScore      == (normalizedScore * rankDiscount) \div One
    IN CLAMP(finalScore, 0, One)

EXPERT_METADATA(agent, pattern, requiredSkills) ==
  LET patternSkills == EXTRACT_SKILLS(pattern.metadata)
      patternSpecializations == pattern.metadata.specializations
      hasSkills == Len(patternSkills) > 0
      hasSpecs  == Len(patternSpecializations) > 0
      hasReq    == Len(requiredSkills) > 0
      skillPart == IF hasSkills
                   THEN (CountIn(patternSkills, agent.skills) * 5000)
                          \div Len(patternSkills)
                   ELSE 0
      specPart  == IF hasSpecs
                   THEN (CountIn(patternSpecializations, agent.specializations) * 3000)
                          \div Len(patternSpecializations)
                   ELSE 0
      hasAllRequired == \A i \in 1..Len(requiredSkills) : requiredSkills[i] \in agent.skills
      reqPart   == IF ~hasReq THEN 0
                   ELSE IF hasAllRequired THEN 2000
                   ELSE (CountIn(requiredSkills, agent.skills) * 1500)
                          \div Len(requiredSkills)
      score     == skillPart + specPart + reqPart
      maxScore  == (IF hasSkills THEN 5000 ELSE 0) + (IF hasSpecs THEN 3000 ELSE 0)
                   + (IF hasReq THEN 2000 ELSE 0)
      normalizedScore == IF maxScore > 0 THEN (score * One) \div maxScore ELSE 5000
  IN CLAMP(normalizedScore, 0, One)

EXPERT_SUCCESS_RATE(agent, patternType) ==
  CLAMP(SuccessRateOf(agent, patternType), 0, One)

\* a recent win carries its age in minutes (CURRENT_TIMESTAMP() - timestamp)
EXPERT_RECENCY(agent, patternType, timeWindowMinutes) ==
  LET baseScore == GET_SUCCESS_RATE(agent.agent_id, patternType)
      inWindow  == {i \in 1..Len(agent.recent_wins) :
                      /\ agent.recent_wins[i].pattern_type = patternType
                      /\ agent.recent_wins[i].age_min * 60 <= timeWindowMinutes * 60}
      recentWinsInWindow == Cardinality(inWindow)
      recentSuccessesInWindow ==
        Cardinality({i \in inWindow : agent.recent_wins[i].success})
      boostAmount == IF recentWinsInWindow > 0
                     THEN (recentSuccessesInWindow * 2000) \div recentWinsInWindow
                     ELSE 0
  IN IF Len(agent.recent_wins) = 0 THEN baseScore
     ELSE CLAMP(baseScore + boostAmount, 0, One)

EXPERT_TEAM_DIVERSITY(agent, context) ==
  LET loadPercentage == (agent.team_assignments * One) \div agent.team_capacity
      assignedPenalty == IF agent.agent_id \in context.assigned THEN 2000 ELSE 0
      overloadPenalty == IF loadPercentage > 8000
                         THEN (loadPercentage - 8000) \div 2 ELSE 0
      loadBonus == IF loadPercentage < 3000
                   THEN (3000 - loadPercentage) \div 10 ELSE 0
      similarAgentsAssigned == context.similar_assigned[agent.agent_id]
      diversityPenalty == IF similarAgentsAssigned > 2
                          THEN (similarAgentsAssigned - 2) * 500 ELSE 0
      penalties == assignedPenalty + overloadPenalty - loadBonus + diversityPenalty
  IN CLAMP(One - penalties, 0, One)

priorityLatencies ==
  [low      |-> [acceptable |-> 1000, target |-> 500],
   medium   |-> [acceptable |-> 500,  target |-> 200],
   high     |-> [acceptable |-> 200,  target |-> 100],
   critical |-> [acceptable |-> 100,  target |-> 50]]

EXPERT_LATENCY_FIT(agent, patternPriority, maxLatency) ==
  LET agentLatencyP99 == agent.latency_profile.p99
      agentLatencyMax == agent.latency_profile.max
      latencyTarget     == priorityLatencies[patternPriority].target
      latencyAcceptable == priorityLatencies[patternPriority].acceptable
      score == IF agentLatencyP99 <= latencyTarget THEN One
               ELSE IF agentLatencyP99 <= latencyAcceptable
               THEN One - (((agentLatencyP99 - latencyTarget) * 4000)
                             \div (latencyAcceptable - latencyTarget))
               ELSE 1000
  IN IF maxLatency # NONE /\ agentLatencyMax > maxLatency THEN 0
     ELSE CLAMP(score, 0, One)

EXPERT_CONTEXT_RELEVANCE(agent, context, pattern) ==
  LET id == agent.agent_id
      preferredBoost == IF id \in context.user_preferences.preferred_agents
                        THEN 3000 ELSE 0
      userSuccessRate == context.user_agent_success[id]
      userBoost == IF userSuccessRate # NONE
                   THEN ((userSuccessRate - 5000) * 2) \div 10 ELSE 0
      timeBoost == IF id \in context.active_at_time_of_day THEN 500 ELSE 0
      lastExec  == context.hours_since_last_execution[id]
      recentBoost == IF lastExec # NONE /\ lastExec < 24 THEN 1000 ELSE 0
      baseScore == 5000 + preferredBoost + userBoost + timeBoost + recentBoost
  IN IF id \in context.user_preferences.excluded_agents THEN 0
     ELSE CLAMP(baseScore, 0, One)

EXPERT_CONFIDENCE_CALIBRATION(agent, context) ==
  LET recentAccuracy == context.recent_accuracy[agent.agent_id]
      calibrationFactor ==
        IF recentAccuracy >= 9500 THEN 5000 + ((recentAccuracy - 9500) * 20)
        ELSE IF recentAccuracy >= 9000 THEN 5000
        ELSE 5000 - (((9000 - recentAccuracy) * 500) \div 1000)
  IN IF recentAccuracy = NONE THEN 5000
     ELSE CLAMP(calibrationFactor, 0, One)

\* ------------------------------------------------------------------------
\* COMPUTE_EXPERT_SCORE: each expert in its own TRY/CATCH (neutral 0.5 on
\* failure), every score clamped, fixed-weight sum, final clamp.
\* failing: the set of experts that raise for this scoring pass.
\* ------------------------------------------------------------------------
Neutral == 5000

RawExpert(name, agent, pattern, context, cands) ==
  LET patternType == EXTRACT_PATTERN_TYPE(pattern.metadata) IN
  CASE name = "similarity" ->
         EXPERT_SIMILARITY(agent.agent_id, cands, EXTRACT_SIMILARITY_SCORES(cands))
    [] name = "metadata" ->
         EXPERT_METADATA(agent, pattern, pattern.constraints.skill_constraints)
    [] name = "success_rate" -> EXPERT_SUCCESS_RATE(agent, patternType)
    [] name = "recency" -> EXPERT_RECENCY(agent, patternType, 60)
    [] name = "team_diversity" -> EXPERT_TEAM_DIVERSITY(agent, context)
    [] name = "latency_fit" ->
         EXPERT_LATENCY_FIT(agent, EXTRACT_PRIORITY(pattern.metadata),
                            pattern.constraints.max_latency_ms)
    [] name = "context_relevance" -> EXPERT_CONTEXT_RELEVANCE(agent, context, pattern)
    [] name = "confidence_calibration" -> EXPERT_CONFIDENCE_CALIBRATION(agent, context)

\* an expert raises when the environment makes it fail or, for latency_fit,
\* when the declared priority has no entry in priorityLatencies
ExpertRaises(name, pattern, failing) ==
  \/ name \in failing
  \/ /\ name = "latency_fit"
     /\ EXTRACT_PRIORITY(pattern.metadata) \notin DOMAIN priorityLatencies

\* variant: a failed expert counts as the worst score
ExpertScores_FailureAsWorst(agent, pattern, context, cands, failing) ==
  [name \in Range(ExpertNames) |->
     CLAMP(IF ExpertRaises(name, pattern, failing) THEN 0
           ELSE RawExpert(name, agent, pattern, context, cands),
           0, One)]

ExpertScores(agent, pattern, context, cands, failing) ==
  [name \in Range(ExpertNames) |->
     CLAMP(IF ExpertRaises(name, pattern, failing) THEN Neutral
           ELSE RawExpert(name, agent, pattern, context, cands),
           0, One)]

WeightedSum(expertScores) ==
  SeqSum([i \in 1..Len(ExpertNames) |->
            expertScores[ExpertNames[i]] * weights[ExpertNames[i]]])

COMPUTE_EXPERT_SCORE(agent, pattern, context, cands, failing) ==
  CLAMP(WeightedSum(ExpertScores(agent, pattern, context, cands, failing)) \div 100,
        0, One)

\* ------------------------------------------------------------------------
\* Constraint filter and ranking
\* ------------------------------------------------------------------------
\* variant: the latency ceiling is not applied
PassesConstraints_NoLatency(agent, constraints, excluded) ==
  /\ agent.agent_id \notin excluded
  /\ constraints.required_security_level # NONE
       => agent.security_level >= constraints.required_security_level
  /\ \A i \in 1..Len(constraints.skill_constraints) :
       constraints.skill_constraints[i] \in agent.skills

\* hard constraints of AgentCapabilityMatcher plus the excluded list
PassesConstraints(agent, constraints, excluded) ==
  /\ agent.agent_id \notin excluded
  /\ constraints.max_latency_ms # NONE
       => agent.latency_profile.p99 <= constraints.max_latency_ms
  /\ constraints.required_security_level # NONE
       => agent.security_level >= constraints.required_security_level
  /\ \A i \in 1..Len(constraints.skill_constraints) :
       constraints.skill_constraints[i] \in agent.skills

\* FILTER_AGENTS keeps the order of the loaded profiles
FILTER_AGENTS(agents, constraints, excluded) ==
  SelectSeq(agents, LAMBDA a : PassesConstraints(a, constraints, excluded))

\* insertion of x into a list sorted by descending score; equal scores keep
\* their input order
RECURSIVE InsertDesc(_, _, _)
InsertDesc(x, sorted, scores) ==
  IF sorted = <<>> THEN <<x>>
  ELSE IF scores[Head(sorted)] >= scores[x]
       THEN <<Head(sorted)>> \o InsertDesc(x, Tail(sorted), scores)
       ELSE <<x>> \o sorted

RECURSIVE SortDesc(_, _)
SortDesc(ids, scores) ==
  IF ids = <<>> THEN <<>>
  ELSE InsertDesc(ids[Len(ids)], SortDesc(SubSeq(ids, 1, Len(ids) - 1), scores), scores)

\* SORT_BY_SCORE over agent ids
SORT_BY_SCORE(ids, scores) == SortDesc(ids, scores)

\* variant: the entries are taken from the top of the list
TakeFrom_FromTop(list, from, count) ==
  SubSeq(list, 1, IF Len(list) < count THEN Len(list) ELSE count)

\* TAKE(rankedAgents, 1, 3): up to count entries from 0-based index from
TakeFrom(list, from, count) ==
  SubSeq(list, from + 1, IF Len(list) < from + count THEN Len(list) ELSE from + count)

IdsOf(list) == [i \in 1..Len(list) |-> list[i].agent_id]

\* the profile of an agent in the list loaded by BATCH_GET_PROFILES
ProfileOf(list, agentId) ==
  list[CHOOSE i \in 1..Len(list) : list[i].agent_id = agentId]

\* ------------------------------------------------------------------------
\* Byzantine consensus: the five validators and the vote
\* ------------------------------------------------------------------------
B(b) == IF b THEN "true" ELSE "false"

GET_AGENT_SIMILARITY_SCORE(agentId, cands) ==
  IF RankOf(agentId, cands) = NONE THEN 0
  ELSE cands[RankOf(agentId, cands) + 1].similarity

\* alternatives[0] of an empty list raises: the task ends in an error
VALIDATE_SEMANTIC_SIMILARITY(primaryAgent, alternatives, cands) ==
  IF Len(alternatives) = 0 THEN "error"
  ELSE LET primaryScore == GET_AGENT_SIMILARITY_SCORE(primaryAgent.agent_id, cands)
           secondaryScore == GET_AGENT_SIMILARITY_SCORE(alternatives[1], cands)
       IN IF (primaryScore - secondaryScore) > 1000 THEN "true"
          ELSE IF primaryScore > 5000 THEN "true"
          ELSE "false"

VALIDATE_SUCCESS_RATE(primaryAgent, pattern) ==
  B(GET_SUCCESS_RATE(primaryAgent.agent_id, EXTRACT_PATTERN_TYPE(pattern.metadata)) > 7000)

VALIDATE_CAPABILITY_MATCH(primaryAgent, pattern) ==
  LET requiredSkills == EXTRACT_SKILLS(pattern.metadata)
  IN B(\A i \in 1..Len(requiredSkills) : requiredSkills[i] \in primaryAgent.skills)

VALIDATE_CONTEXT_RELEVANCE(primaryAgent, context) ==
  IF primaryAgent.agent_id \in context.user_preferences.excluded_agents THEN "false"
  ELSE IF primaryAgent.is_available = FALSE THEN "false"
  ELSE "true"

VALIDATE_TEAM_DIVERSITY(primaryAgent) ==
  LET loadPercentage == (primaryAgent.team_assignments * One) \div primaryAgent.team_capacity
  IN IF loadPercentage > 8000 THEN "false" ELSE "true"

\* the five spawned tasks, in spawn order
ValidatorTasks(primaryAgent, alternatives, pattern, context, cands) ==
  << VALIDATE_SEMANTIC_SIMILARITY(primaryAgent, alternatives, cands),
     VALIDATE_SUCCESS_RATE(primaryAgent, pattern),
     VALIDATE_CAPABILITY_MATCH(primaryAgent, pattern),
     VALIDATE_CONTEXT_RELEVANCE(primaryAgent, context),
     VALIDATE_TEAM_DIVERSITY(primaryAgent) >>

COUNT_TRUE(results) == Cardinality({i \in 1..Len(results) : results[i] = "true"})
COUNT_NULL(results) == Cardinality({i \in 1..Len(results) : results[i] = "null"})

\* variant: a strict majority test
DetermineConsensus_Strict(agreements, abstentions) ==
  IF agreements > RequiredAgreement THEN "APPROVE"
  ELSE IF agreements < RequiredAgreement
          /\ abstentions < (Validators - RequiredAgreement) THEN "ESCALATE"
  ELSE "TIMEOUT"

\* "Determine consensus" of VALIDATE_BYZANTINE
DetermineConsensus(agreements, abstentions) ==
  IF agreements >= RequiredAgreement THEN "APPROVE"
  ELSE IF agreements < RequiredAgreement
          /\ abstentions < (Validators - RequiredAgreement) THEN "ESCALATE"
  ELSE "TIMEOUT"

\* ------------------------------------------------------------------------
\* Confidence calibration
\* ------------------------------------------------------------------------
\* COMPUTE_ENTROPY / LOG(n), quantised to three levels: 0 when at most one
\* score is non-zero, One when all scores are equal, half between
NormalizedEntropy(scores) ==
  IF Cardinality(DOMAIN scores) <= 1 THEN 0
  ELSE IF Cardinality({a \in DOMAIN scores : scores[a] # 0}) <= 1 THEN 0
  ELSE IF \A a, b \in DOMAIN scores : scores[a] = scores[b] THEN One
  ELSE 5000

CALIBRATE_CONFIDENCE(primaryScore, secondaryScore, consensusValidatorsAgreed, consensusRequired, agentRecentAccuracy0, patternSuccessRate0, normalizedEntropy) ==
  LET baseConfidence == primaryScore - secondaryScore
      uncertaintyPenalty == normalizedEntropy \div 2
      consensusBonus == IF consensusRequired
                        THEN (consensusValidatorsAgreed * 2000) \div 5 ELSE 0
      agentRecentAccuracy == IF agentRecentAccuracy0 = NONE THEN 8500
                             ELSE agentRecentAccuracy0
      calibrationFactor ==
        CLAMP(One + (((agentRecentAccuracy - 9250) * 10) \div 75), 9000, 11000)
      patternSuccessRate == IF patternSuccessRate0 = NONE THEN 8500
                            ELSE patternSuccessRate0
      patternUncertaintyPenalty ==
        IF patternSuccessRate < 8000
        THEN ((One - patternSuccessRate) * 15) \div 100 ELSE 0
      combined == ((baseConfidence * 6) \div 10)
                  + (((One - uncertaintyPenalty) * 2) \div 10)
                  + consensusBonus
                  - patternUncertaintyPenalty
  IN CLAMP((combined * calibrationFactor) \div One, 0, One)

\* ------------------------------------------------------------------------
\* Decisions
\* ------------------------------------------------------------------------
\* GENERATE_UUID(): an identifier no other route produces, the ordinal of
\* the running route
GENERATE_UUID == reqCount

\* scoringBreakdown = NULL
NoBreakdown == [name \in Range(ExpertNames) |-> NONE]

\* GET_EXPERT_SCORES: the vector kept under "expert_scores:" + agent id
GET_EXPERT_SCORES(agentId) == expertCache[agentId]

\* phase 12: the breakdown of the decision, only if the request asks for it
BUILD_SCORING_BREAKDOWN(r, agentId) ==
  IF r.explain_reasoning THEN GET_EXPERT_SCORES(agentId) ELSE NoBreakdown

MkDecision(id, kind, agent, score, alts, confidence, tag, cresult, agreed, reasoning) ==
  [decision_id |-> id, kind |-> kind, primary_agent |-> agent, primary_score |-> score,
   alternatives |-> alts, confidence_score |-> confidence,
   fallback_applied |-> tag, consensus_result |-> cresult,
   validators_agreed |-> agreed, reasoning |-> reasoning,
   scoring_breakdown |-> NoBreakdown]

NoDecision == MkDecision(0, "none", NULL, 0, <<>>, 0, NULL, NULL, 0, "")

\* variant: the error does not say why the route failed
Thrown_NoReason(message) ==
  MkDecision(0, "thrown", NULL, 0, <<>>, 0, NULL, NULL, 0, "")

\* a thrown error: no decision reaches the caller
Thrown(message) == MkDecision(0, "thrown", NULL, 0, <<>>, 0, NULL, NULL, 0, message)

BUILD_ERROR_DECISION(errorMessage) ==
  MkDecision(0, "error_decision", NULL, 0, <<>>, 0, NULL, NULL, 0, errorMessage)

BUILD_FALLBACK_DECISION(agentId, strategy, confidenceScore, fallbackReason) ==
  MkDecision(GENERATE_UUID, "decision", agentId,
             GET_SUCCESS_RATE(agentId, "unknown"), <<>>,
             confidenceScore, strategy, NULL, 0, fallbackReason)

\* ------------------------------------------------------------------------
\* Fallback strategies
\* ------------------------------------------------------------------------
\* variant: the success history is consulted first
fallbackChain_HistoryFirst ==
  <<"success_history", "alternatives", "skill_match", "round_robin",
    "default_agent", "error">>

fallbackChain == <<"alternatives", "skill_match", "success_history",
                   "round_robin", "default_agent", "error">>

\* variant: round_robin as confident as skill_match
FallbackConfidence_Flat ==
  [alternatives |-> 7000, skill_match |-> 6000, success_history |-> 5500,
   round_robin |-> 6000, default_agent |-> 3000]

FallbackConfidence ==
  [alternatives |-> 7000, skill_match |-> 6000, success_history |-> 5500,
   round_robin |-> 4000, default_agent |-> 3000]

FallbackReason ==
  [alternatives    |-> "Primary unavailable, using alternative",
   skill_match     |-> "Matched agent by required skills",
   success_history |-> "Selected by best historical success rate",
   round_robin     |-> "Selected by round-robin load balancing",
   default_agent   |-> "Using designated default fallback agent"]

DefaultAgent == "a3"
\* the rotation pointer is a counter; modulo lcm(1,2,3) it indexes every
\* list of available agents as the unbounded counter does
RRModulus == 2 * Cardinality(Agents)

IS_AVAILABLE(agentId) == profiles[agentId].is_available

GET_CACHED_ALTERNATIVES(pattern) == altCache[pattern.pattern_id]

\* first available agent of a list, NULL when there is none
RECURSIVE FirstAvailable(_)
FirstAvailable(list) ==
  IF list = <<>> THEN NULL
  ELSE IF IS_AVAILABLE(Head(list)) THEN Head(list)
  ELSE FirstAvailable(Tail(list))

GET_AVAILABLE_AGENTS == SelectSeq(AgentOrder, LAMBDA a : IS_AVAILABLE(a))

\* available agents holding at least one of the skills
FIND_AGENTS_BY_SKILLS(skills) ==
  SelectSeq(GET_AVAILABLE_AGENTS,
            LAMBDA a : \E i \in 1..Len(skills) : skills[i] \in profiles[a].skills)

SORT_BY_SUCCESS_RATE(ids) ==
  SortDesc(ids, [a \in Agents |-> profiles[a].success_rate_default])

GET_BEST_AGENT_FOR_PATTERN_TYPE(patternType) ==
  LET ranked == SortDesc(GET_AVAILABLE_AGENTS,
                         [a \in Agents |-> SuccessRateOf(profiles[a], patternType)])
  IN IF ranked = <<>> THEN NULL ELSE ranked[1]

\* variant: the selection ignores the rotation pointer
ROUND_ROBIN_SELECT_First(availableAgents) == availableAgents[1]

ROUND_ROBIN_SELECT(availableAgents) ==
  availableAgents[(rrPointer % Len(availableAgents)) + 1]

\* the agent a strategy selects when it does not raise, NULL when it
\* selects none
StrategyAgent(strategy, pattern) ==
  CASE strategy = "alternatives" -> FirstAvailable(GET_CACHED_ALTERNATIVES(pattern))
    [] strategy = "skill_match" ->
         LET requiredSkills == EXTRACT_SKILLS(pattern.metadata)
             candidateAgents == FIND_AGENTS_BY_SKILLS(requiredSkills)
         IN IF Len(requiredSkills) > 0 /\ Len(candidateAgents) > 0
            THEN SORT_BY_SUCCESS_RATE(candidateAgents)[1]
            ELSE NULL
    [] strategy = "success_history" ->
         GET_BEST_AGENT_FOR_PATTERN_TYPE(EXTRACT_PATTERN_TYPE(pattern.metadata))
    [] strategy = "round_robin" ->
         IF Len(GET_AVAILABLE_AGENTS) > 0
         THEN ROUND_ROBIN_SELECT(GET_AVAILABLE_AGENTS) ELSE NULL
    [] strategy = "default_agent" ->
         IF DefaultAgent # NULL /\ IS_AVAILABLE(DefaultAgent)
         THEN DefaultAgent ELSE NULL

\* ------------------------------------------------------------------------
\* ROUTE_BY_METADATA
\* ------------------------------------------------------------------------
ROUTE_BY_METADATA(pattern) ==
  LET requiredSkills == EXTRACT_SKILLS(pattern.metadata)
      patternType == EXTRACT_PATTERN_TYPE(pattern.metadata)
      cands == FIND_AGENTS_BY_SKILLS(requiredSkills)
      scores == [a \in Agents |-> GET_SUCCESS_RATE(a, patternType)]
      primaryAgent == SORT_BY_SCORE(cands, scores)[1]
  IN IF Len(cands) = 0
     THEN BUILD_ERROR_DECISION("No agents match required skills")
     ELSE MkDecision(GENERATE_UUID, "decision", primaryAgent,
                     scores[primaryAgent], <<>>, 5000,
                     "metadata_routing", NULL, 0,
                     "Routing by metadata matching (embedding unavailable)")

\* critical categories of FR-007: security, compliance, high priority
IS_CRITICAL_PATTERN(pattern) ==
  \/ EXTRACT_PATTERN_TYPE(pattern.metadata) \in {"security", "compliance"}
  \/ EXTRACT_PRIORITY(pattern.metadata) \in {"high", "critical"}

\* ------------------------------------------------------------------------
\* The agent pool, the execution context and the requests of the model
\* ------------------------------------------------------------------------
MkProfile(id, avail, skills, specs, byType, dflt, wins, p99, max, sec, assigned, capacity) ==
  [agent_id |-> id, is_available |-> avail, skills |-> skills,
   specializations |-> specs, success_rate_by_type |-> byType,
   success_rate_default |-> dflt, recent_wins |-> wins,
   latency_profile |-> [p99 |-> p99, max |-> max], security_level |-> sec,
   team_assignments |-> assigned, team_capacity |-> capacity,
   unavailable_until |-> NONE]

Pool(avail) ==
  [a \in Agents |->
     CASE a = "a1" ->
            MkProfile("a1", avail["a1"], {"auth"}, {"oauth"}, [security |-> 9500], 8000,
                      <<[pattern_type |-> "security", age_min |-> 10, success |-> TRUE]>>,
                      80, 150, 3, 1, 10)
       [] a = "a2" ->
            MkProfile("a2", avail["a2"], {"db"}, {"postgres"}, [security |-> 6000], 5000,
                      <<>>, 300, 600, 1, 9, 10)
       [] a = "a3" ->
            MkProfile("a3", avail["a3"], {"auth", "db"}, {"oauth"}, [compliance |-> 7000], 5000,
                      <<[pattern_type |-> "security", age_min |-> 90, success |-> FALSE]>>,
                      150, 250, 2, 5, 10)]

Ctx ==
  [user_preferences |-> [preferred_agents |-> {"a1"}, excluded_agents |-> {}],
   assigned |-> {"a2"},
   similar_assigned |-> [a \in Agents |-> IF a = "a2" THEN 3 ELSE 0],
   user_agent_success |-> [a \in Agents |-> IF a = "a1" THEN 9000 ELSE NONE],
   active_at_time_of_day |-> {"a1"},
   hours_since_last_execution |->
     [a \in Agents |-> IF a = "a1" THEN 2 ELSE IF a = "a3" THEN 30 ELSE NONE],
   recent_accuracy |->
     [a \in Agents |-> IF a = "a1" THEN 9800 ELSE IF a = "a2" THEN 8000 ELSE NONE],
   current_agent_id |-> NULL,
   pattern_success |-> [p1 |-> NONE, p2 |-> 1000]]

PatternIds == {"p1", "p2"}

\* metadata["skills"]: absent, or the raw segments of the string
NoSkills == [present |-> FALSE, segs |-> <<>>]
Skills(segs) == [present |-> TRUE, segs |-> segs]

MkReq(pid, skills, type, priority, excluded, maxLatency, security, consensus, skillConstraints, embedding, valid, explain) ==
  [pattern_id |-> pid,
   metadata |-> [skills |-> skills, type |-> type, category |-> NULL,
                 priority |-> priority, specializations |-> <<"oauth">>],
   excluded_agents |-> excluded,
   constraints |-> [max_latency_ms |-> maxLatency,
                    required_security_level |-> security,
                    require_consensus |-> consensus,
                    skill_constraints |-> skillConstraints],
   pattern_embedding |-> embedding,
   explain_reasoning |-> explain,
   valid |-> valid]

\* the requests of the model
ReqPlain ==
  MkReq("p1", NoSkills, NULL, NULL, {}, NONE, NONE, FALSE, <<>>, "provided", TRUE,
        TRUE)
ReqAllExcluded ==
  MkReq("p1", NoSkills, NULL, NULL, Agents, NONE, NONE, FALSE, <<>>, "provided", TRUE,
        FALSE)
ReqSecurity ==
  MkReq("p1", Skills(<<" auth", "db ">>), "security", NULL, {}, NONE, NONE, FALSE,
        <<"auth">>, "provided", TRUE, TRUE)
ReqNoEmbedding ==
  MkReq("p2", Skills(<<"auth">>), NULL, NULL, {"a1"}, NONE, NONE, TRUE, <<>>, NULL, TRUE,
        FALSE)
ReqUrgent ==
  MkReq("p2", NoSkills, NULL, "urgent", {}, 100, 2, FALSE, <<>>, "provided", TRUE,
        TRUE)
ReqConsensus ==
  MkReq("p2", NoSkills, NULL, NULL, {"a1", "a3"}, NONE, NONE, TRUE, <<>>, "provided", TRUE,
        FALSE)
ReqInvalid ==
  MkReq("p2", NoSkills, NULL, NULL, {}, NONE, NONE, FALSE, <<>>, "provided", FALSE,
        FALSE)

Requests == {ReqPlain, ReqAllExcluded, ReqSecurity, ReqNoEmbedding, ReqUrgent,
             ReqConsensus, ReqInvalid}

\* HNSW_SEARCH result for the modelled patterns
HnswCandidates ==
  << [agent_id |-> "a1", similarity |-> 9000],
     [agent_id |-> "a2", similarity |-> 8000],
     [agent_id |-> "a3", similarity |-> 6000] >>

\* METADATA_FALLBACK_SEARCH: skill-based candidates, no similarity known
METADATA_FALLBACK_SEARCH(pattern) ==
  LET ids == FIND_AGENTS_BY_SKILLS(EXTRACT_SKILLS(pattern.metadata))
  IN [i \in 1..Len(ids) |-> [agent_id |-> ids[i], similarity |-> 0]]

\* validator tasks that end in an error, as drawn when a route spawns them
ErrorSets == {{}, {4}, {3, 4, 5}}

\* how long one WAIT_FOR_TASK can block: d < 50 returns the task's result
\* after d ms, 50 is the per-task timeout
WaitDurations == {0, 30, 50}

NoExperts == [name \in Range(ExpertNames) |-> 0]
\* the second task before it routes anything
NoPeer == [pc |-> "idle", req |-> ReqPlain, primary |-> NULL,
           scoring_breakdown |-> NoBreakdown]
NoScores == [a \in Agents |-> 0]
NoPrev == [valid |-> FALSE, path |-> "none", faults |-> {}, decision |-> NoDecision]
\* insertPatterns has not been called
NoScript ==
  [pc |-> "off", patterns |-> <<>>, i |-> 0, embedded |-> <<>>, failed |-> <<>>,
   total |-> 0, delayed |-> FALSE, issued |-> <<>>]
\* the two update tasks before an execution is reported to them
UpdateTasks == {1, 2}
NoUpdaters ==
  [u \in UpdateTasks |->
     [pc |-> "idle", agent_id |-> NULL, pattern_type |-> NULL, success |-> FALSE,
      latency_ms |-> 0, consecutiveFailures |-> 0, profile |-> <<>>]]

\* ------------------------------------------------------------------------
\* Initial state
\* ------------------------------------------------------------------------
RunInit ==
  /\ cache = [r \in Requests |-> NoDecision]
  /\ altCache = [p \in PatternIds |-> <<>>]
  /\ auditTrail = {}
  /\ rrPointer = 0
  /\ rrSelections = <<>>
  /\ agreementCount = 0
  /\ expertCache = [a \in Agents |-> NoExperts]
  /\ peer = NoPeer
  /\ embeddingCache = {}
  /\ embedCalls = 0
  /\ updaters = NoUpdaters
  /\ now = 0
  /\ script = NoScript
  /\ reqCount = 0
  /\ req = ReqPlain
  /\ faults = {}
  /\ candidates = <<>>
  /\ agentProfiles = <<>>
  /\ agentScores = NoScores
  /\ rankedAgents = <<>>
  /\ validatorResults = <<>>
  /\ elapsed = 0
  /\ consensusResult = "NONE"
  /\ fbIndex = 1
  /\ failureReason = ""
  /\ path = "none"
  /\ decision = NoDecision
  /\ prev = NoPrev

\* the availability of the pool during the modelled routes
Availabilities ==
  { [a \in Agents |-> TRUE], [a \in Agents |-> FALSE],
    [a \in Agents |-> a # "a1"] }

Init ==
  /\ \E avail \in Availabilities : profiles = Pool(avail)
  /\ pc = "idle"
  /\ taskOutcome = <<>>
  /\ RunInit

\* ------------------------------------------------------------------------
\* SemanticRoute, phases 1-8
\* ------------------------------------------------------------------------
\* variant: starting a route counts an assignment on the first agent
StartWithin_CountsAssignment(r, limit) ==
  /\ pc = "idle"
  /\ reqCount < limit
  /\ reqCount' = reqCount + 1
  /\ req' = r
  /\ prev' = IF reqCount > 0 /\ r = req
             THEN [valid |-> TRUE, path |-> path, faults |-> faults,
                   decision |-> decision]
             ELSE NoPrev
  /\ profiles' = [profiles EXCEPT ![AgentOrder[1]].team_assignments = @ + 1]

\* a route starts; it reads the ProfileStore and writes nothing to it
StartWithin(r, limit) ==
  /\ pc = "idle"
  /\ reqCount < limit
  /\ reqCount' = reqCount + 1
  /\ req' = r
  /\ prev' = IF reqCount > 0 /\ r = req
             THEN [valid |-> TRUE, path |-> path, faults |-> faults,
                   decision |-> decision]
             ELSE NoPrev
  /\ UNCHANGED profiles

\* a route of the bounded number of requests of the model
Start(r) == StartWithin(r, MaxRequests)

\* the locals of a route are gone when it returns
ClearLocals ==
  /\ candidates' = <<>>
  /\ agentProfiles' = <<>>
  /\ agentScores' = NoScores
  /\ rankedAgents' = <<>>
  /\ taskOutcome' = <<>>
  /\ validatorResults' = <<>>
  /\ elapsed' = 0
  /\ fbIndex' = 1
  /\ failureReason' = ""

\* the route returns to its caller
Return(p, d) ==
  /\ pc' = "idle"
  /\ path' = p
  /\ decision' = d
  /\ ClearLocals

\* phase 1: validation fails, HttpError 400
RouteReject(r) ==
  /\ Start(r)
  /\ ~r.valid
  /\ faults' = {}
  /\ consensusResult' = "NONE"
  /\ Return("error", Thrown("Invalid routing request"))
  /\ UNCHANGED <<cache, altCache, auditTrail, rrPointer, rrSelections,
                 agreementCount, expertCache, peer, embeddingCache,
                 embedCalls, updaters, now, script>>

\* variant: a cache hit hands out the stored decision under a new identifier
RouteCached_Restamped(r) ==
  /\ Start(r)
  /\ r.valid
  /\ cache[r] # NoDecision
  /\ faults' = {}
  /\ consensusResult' = "NONE"
  /\ Return("cache", [cache[r] EXCEPT !.decision_id = reqCount'])
  /\ UNCHANGED <<cache, altCache, auditTrail, rrPointer, rrSelections,
                 agreementCount, expertCache, peer, embeddingCache,
                 embedCalls, updaters, now, script>>

\* phase 2: cache hit
RouteCached(r) ==
  /\ Start(r)
  /\ r.valid
  /\ cache[r] # NoDecision
  /\ faults' = {}
  /\ consensusResult' = "NONE"
  /\ Return("cache", cache[r])
  /\ UNCHANGED <<cache, altCache, auditTrail, rrPointer, rrSelections,
                 agreementCount, expertCache, peer, embeddingCache,
                 embedCalls, updaters, now, script>>

\* phase 3: EMBED_PATTERN raises, ROUTE_BY_METADATA
RouteMetadata(r) ==
  /\ Start(r)
  /\ r.valid
  /\ cache[r] = NoDecision
  /\ r.pattern_embedding = NULL
  /\ faults' = {"embedding_error"}
  /\ consensusResult' = "NONE"
  /\ Return("metadata",
            IF ROUTE_BY_METADATA(r).kind = "decision"
            THEN [ROUTE_BY_METADATA(r) EXCEPT !.decision_id = reqCount']
            ELSE ROUTE_BY_METADATA(r))
  /\ UNCHANGED <<cache, altCache, auditTrail, rrPointer, rrSelections,
                 agreementCount, expertCache, peer, embeddingCache,
                 embedCalls, updaters, now, script>>

\* hnsw_empty: HNSW_SEARCH raises or finds nothing, both take the metadata
\* fallback search
SearchFaults == {"none", "hnsw_empty", "db_error"}

\* variant: only the request's flag asks for consensus
ConsensusRequired_FlagOnly(r) == r.constraints.require_consensus

ConsensusRequired(r) == r.constraints.require_consensus \/ IS_CRITICAL_PATTERN(r)

\* phases 4-6: search, load the profiles, filter
SearchPhases(r, fault) ==
  LET cands == IF fault = "hnsw_empty"
               THEN METADATA_FALLBACK_SEARCH(r) ELSE HnswCandidates
      loaded == [i \in 1..Len(cands) |-> profiles[cands[i].agent_id]]
      eligibleAgents == FILTER_AGENTS(loaded, r.constraints, r.excluded_agents)
  IN
  /\ faults' = IF fault = "none" THEN {} ELSE {fault}
  /\ consensusResult' = "NONE"
  /\ UNCHANGED <<cache, altCache, auditTrail, rrPointer, rrSelections,
                 agreementCount, expertCache, peer, embeddingCache,
                 embedCalls, updaters, now, script>>
  /\ IF Len(cands) = 0 THEN
       /\ fault # "db_error"
       /\ Return("error", Thrown("Cannot route pattern - no candidates found"))
     ELSE IF fault = "db_error" THEN
       Return("error", Thrown("Cannot load agent profiles"))
     ELSE
       /\ candidates' = cands
       /\ agentProfiles' = loaded
       /\ failureReason' = IF Len(eligibleAgents) = 0
                           THEN "No agents match constraints" ELSE ""
       /\ pc' = IF Len(eligibleAgents) = 0 THEN "fallback" ELSE "score"
       /\ UNCHANGED <<agentScores, rankedAgents, taskOutcome, validatorResults,
                      elapsed, fbIndex, path, decision>>

\* phases 3-6 of a request that carries its embedding
RouteSearchWithin(r, fault, limit) ==
  /\ StartWithin(r, limit)
  /\ r.valid
  /\ cache[r] = NoDecision
  /\ r.pattern_embedding # NULL
  /\ SearchPhases(r, fault)

RouteSearch(r, fault) == RouteSearchWithin(r, fault, MaxRequests)

ScoreFaults == {"none", "scoring_error", "consensus_error"}

\* phases 7-9 up to the spawn of the validators; failing: the experts that
\* raise in this scoring pass (each is logged by name), errs: the validator
\* tasks that end in an error
RouteScore(fault, errs, failing) ==
  LET eligibleAgents == FILTER_AGENTS(agentProfiles, req.constraints,
                                      req.excluded_agents)
      eligibleIds == IdsOf(eligibleAgents)
      scored == fault # "scoring_error"
      scores == [a \in Agents |->
                   IF a \notin Range(eligibleIds) THEN 0
                   ELSE IF ~scored THEN Neutral
                   ELSE COMPUTE_EXPERT_SCORE(ProfileOf(agentProfiles, a), req, Ctx,
                                             candidates, failing)]
      ranked == SORT_BY_SCORE(eligibleIds, scores)
      alternativeAgents == TakeFrom(ranked, 1, 3)
  IN
  /\ pc = "score"
  /\ (fault # "none" \/ errs # {} \/ failing # {}) => faults = {}
  /\ fault # "none" => errs = {} /\ failing = {}
  /\ fault = "consensus_error" => ConsensusRequired(req)
  /\ errs # {} => ConsensusRequired(req)
  /\ faults' = (IF fault = "none" THEN faults ELSE faults \cup {fault})
               \cup (IF failing = {} THEN {} ELSE {"expert_error"} \cup failing)
  /\ agentScores' = scores
  /\ rankedAgents' = ranked
  /\ expertCache' =
       [a \in Agents |->
          IF a \in Range(eligibleIds) /\ scored
          THEN ExpertScores(ProfileOf(agentProfiles, a), req, Ctx, candidates,
                            failing)
          ELSE expertCache[a]]
  /\ IF ~ConsensusRequired(req) THEN
       /\ taskOutcome' = <<>>
       /\ consensusResult' = "NONE"
       /\ failureReason' = ""
       /\ pc' = "confidence"
     ELSE IF fault = "consensus_error" THEN
       /\ taskOutcome' = <<>>
       /\ consensusResult' = "ERROR"
       /\ failureReason' = "Consensus failed: ERROR"
       /\ pc' = "fallback"
     ELSE
       /\ taskOutcome' =
            [i \in 1..Validators |->
               IF i \in errs THEN "error"
               ELSE ValidatorTasks(ProfileOf(agentProfiles, ranked[1]),
                                   alternativeAgents,
                                   req, Ctx, candidates)[i]]
       /\ consensusResult' = "NONE"
       /\ failureReason' = ""
       /\ pc' = "collect"
  /\ UNCHANGED <<profiles, cache, altCache, auditTrail, rrPointer, rrSelections,
                 agreementCount, peer, embeddingCache, embedCalls, updaters,
                 now, script, reqCount,
                 req, candidates, agentProfiles, validatorResults, elapsed,
                 fbIndex, path, decision, prev>>

\* ------------------------------------------------------------------------
\* VALIDATE_BYZANTINE: collect the results in task order, then vote
\* ------------------------------------------------------------------------
RunVars == <<reqCount, req, faults, candidates, agentProfiles, agentScores,
             rankedAgents, fbIndex, failureReason, path, decision, prev>>

\* variant: an erring or late validator is recorded as a "no"
Collect_ErrorAsNo(d) ==
  LET i == Len(validatorResults) + 1
      result == IF d >= TaskTimeoutMs THEN "false"
                ELSE IF taskOutcome[i] = "error" THEN "false"
                ELSE taskOutcome[i]
  IN
  /\ pc = "collect"
  /\ validatorResults' = Append(validatorResults, result)
  /\ elapsed' = elapsed + d
  /\ IF elapsed' > ConsensusTimeoutMs
     THEN /\ consensusResult' = "TIMEOUT"
          /\ pc' = "consensus_done"
     ELSE /\ consensusResult' = consensusResult
          /\ pc' = IF i = Validators THEN "determine" ELSE "collect"
  /\ UNCHANGED <<profiles, cache, altCache, auditTrail, rrPointer,
                 rrSelections, agreementCount,
                 expertCache, peer, embeddingCache, embedCalls, updaters, now,
                 script, taskOutcome>>
  /\ UNCHANGED RunVars

\* one iteration of the collection loop: WAIT_FOR_TASK on the next task,
\* then the check of the total timeout
Collect(d) ==
  LET i == Len(validatorResults) + 1
      result == IF d >= TaskTimeoutMs THEN "null"
                ELSE IF taskOutcome[i] = "error" THEN "null"
                ELSE taskOutcome[i]
  IN
  /\ pc = "collect"
  /\ validatorResults' = Append(validatorResults, result)
  /\ elapsed' = elapsed + d
  /\ IF elapsed' > ConsensusTimeoutMs
     THEN /\ consensusResult' = "TIMEOUT"
          /\ pc' = "consensus_done"
     ELSE /\ consensusResult' = consensusResult
          /\ pc' = IF i = Validators THEN "determine" ELSE "collect"
  /\ UNCHANGED <<profiles, cache, altCache, auditTrail, rrPointer,
                 rrSelections, agreementCount,
                 expertCache, peer, embeddingCache, embedCalls, updaters, now,
                 script, taskOutcome>>
  /\ UNCHANGED RunVars

\* count agreements and abstentions, determine the consensus
Determine ==
  LET agreements == COUNT_TRUE(validatorResults)
      abstentions == COUNT_NULL(validatorResults)
  IN
  /\ pc = "determine"
  /\ agreementCount' = agreements
  /\ consensusResult' = DetermineConsensus(agreements, abstentions)
  /\ pc' = "consensus_done"
  /\ UNCHANGED <<profiles, cache, altCache, auditTrail, rrPointer, rrSelections,
                 expertCache, peer, embeddingCache, embedCalls, updaters, now,
                 script, taskOutcome,
                 validatorResults, elapsed>>
  /\ UNCHANGED RunVars

\* the consensus results that send the route to the fallback chain
FallbackResults == {"ESCALATE", "ERROR"}

\* SemanticRoute, end of phase 9: VALIDATE_BYZANTINE has returned, its locals
\* are gone
AfterConsensus ==
  /\ pc = "consensus_done"
  /\ reqCount > 0
  /\ IF consensusResult \in FallbackResults
     THEN /\ pc' = "fallback"
          /\ failureReason' = IF consensusResult = "ESCALATE"
                              THEN "Consensus failed: ESCALATE"
                              ELSE "Consensus failed: ERROR"
     ELSE /\ pc' = "confidence"
          /\ failureReason' = failureReason
  /\ taskOutcome' = <<>>
  /\ validatorResults' = <<>>
  /\ elapsed' = 0
  /\ UNCHANGED <<profiles, cache, altCache, auditTrail, rrPointer, rrSelections,
                 agreementCount, expertCache, peer, embeddingCache,
                 embedCalls, updaters, now, script,
                 reqCount, req, faults, candidates, agentProfiles, agentScores,
                 rankedAgents, consensusResult, fbIndex, path, decision, prev>>

\* ------------------------------------------------------------------------
\* SemanticRoute, phases 10-15
\* ------------------------------------------------------------------------
FinishFaults == {"none", "confidence_error", "persist_error"}

\* variant: a failure to persist the decision fails the request
Finish_PersistFatal(fault) ==
  LET primaryAgent == rankedAgents[1]
      primaryScore == agentScores[primaryAgent]
      alternativeAgents == TakeFrom(rankedAgents, 1, 3)
      secondaryScore == IF Len(alternativeAgents) > 0
                        THEN agentScores[alternativeAgents[1]] ELSE 0
      consensusRequired == ConsensusRequired(req)
      consensusValidatorsAgreed ==
        IF consensusRequired /\ consensusResult # "ERROR" THEN agreementCount ELSE 0
      accuracy == IF Ctx.current_agent_id = NULL THEN NONE
                  ELSE Ctx.recent_accuracy[Ctx.current_agent_id]
      scored == [a \in Range(rankedAgents) |-> agentScores[a]]
      confidenceScore ==
        IF fault = "confidence_error" THEN Neutral
        ELSE CALIBRATE_CONFIDENCE(primaryScore, secondaryScore,
                                  consensusValidatorsAgreed, consensusRequired,
                                  accuracy, Ctx.pattern_success[req.pattern_id],
                                  NormalizedEntropy(scored))
      built == [MkDecision(GENERATE_UUID, "decision", primaryAgent, primaryScore,
                           alternativeAgents, confidenceScore, NULL,
                           IF consensusRequired THEN consensusResult ELSE NULL,
                           consensusValidatorsAgreed, "Selected by expert scoring")
                  EXCEPT !.scoring_breakdown =
                           BUILD_SCORING_BREAKDOWN(req, primaryAgent)]
  IN
  /\ pc = "confidence"
  /\ fault # "none" => faults = {}
  /\ faults' = IF fault = "none" THEN faults ELSE faults \cup {fault}
  /\ IF fault = "persist_error"
     THEN UNCHANGED <<cache, altCache, auditTrail>>
     ELSE /\ auditTrail' = auditTrail \cup {built.decision_id}
          /\ cache' = [cache EXCEPT ![req] = built]
          /\ altCache' = [altCache EXCEPT ![req.pattern_id] = alternativeAgents]
  /\ IF fault = "persist_error"
     THEN Return("error", Thrown("Failed to persist routing decision"))
     ELSE Return("primary", built)
  /\ UNCHANGED <<profiles, rrPointer, rrSelections, agreementCount,
                 expertCache, peer, embeddingCache, embedCalls, updaters, now,
                 script, reqCount, req,
                 consensusResult, prev>>

Finish(fault) ==
  LET primaryAgent == rankedAgents[1]
      primaryScore == agentScores[primaryAgent]
      alternativeAgents == TakeFrom(rankedAgents, 1, 3)
      secondaryScore == IF Len(alternativeAgents) > 0
                        THEN agentScores[alternativeAgents[1]] ELSE 0
      consensusRequired == ConsensusRequired(req)
      consensusValidatorsAgreed ==
        IF consensusRequired /\ consensusResult # "ERROR" THEN agreementCount ELSE 0
      accuracy == IF Ctx.current_agent_id = NULL THEN NONE
                  ELSE Ctx.recent_accuracy[Ctx.current_agent_id]
      scored == [a \in Range(rankedAgents) |-> agentScores[a]]
      confidenceScore ==
        IF fault = "confidence_error" THEN Neutral
        ELSE CALIBRATE_CONFIDENCE(primaryScore, secondaryScore,
                                  consensusValidatorsAgreed, consensusRequired,
                                  accuracy, Ctx.pattern_success[req.pattern_id],
                                  NormalizedEntropy(scored))
      built == [MkDecision(GENERATE_UUID, "decision", primaryAgent, primaryScore,
                           alternativeAgents, confidenceScore, NULL,
                           IF consensusRequired THEN consensusResult ELSE NULL,
                           consensusValidatorsAgreed, "Selected by expert scoring")
                  EXCEPT !.scoring_breakdown =
                           BUILD_SCORING_BREAKDOWN(req, primaryAgent)]
  IN
  /\ pc = "confidence"
  /\ fault # "none" => faults = {}
  /\ faults' = IF fault = "none" THEN faults ELSE faults \cup {fault}
  /\ IF fault = "persist_error"
     THEN UNCHANGED <<cache, altCache, auditTrail>>
     ELSE /\ auditTrail' = auditTrail \cup {built.decision_id}
          /\ cache' = [cache EXCEPT ![req] = built]
          /\ altCache' = [altCache EXCEPT ![req.pattern_id] = alternativeAgents]
  /\ Return("primary", built)
  /\ UNCHANGED <<profiles, rrPointer, rrSelections, agreementCount,
                 expertCache, peer, embeddingCache, embedCalls, updaters, now,
                 script, reqCount, req,
                 consensusResult, prev>>

\* ------------------------------------------------------------------------
\* APPLY_FALLBACK_STRATEGY: one iteration of the loop over fallbackChain
\* ------------------------------------------------------------------------
\* the selections kept for observation: the latest one per agent of the pool
LastSelections(picks) ==
  IF Len(picks) <= Cardinality(Agents) THEN picks
  ELSE SubSeq(picks, Len(picks) - Cardinality(Agents) + 1, Len(picks))

\* variant: an error inside a strategy ends the chain
Fallback_AbortOnError(raises) ==
  LET strategy == fallbackChain[fbIndex]
      selected == StrategyAgent(strategy, req)
      Stay == UNCHANGED <<pc, path, decision, candidates, agentProfiles,
                          agentScores, rankedAgents, taskOutcome,
                          validatorResults, elapsed, failureReason>>
  IN
  /\ pc = "fallback"
  /\ IF strategy = "error" THEN
       /\ ~raises
       /\ Return("fallback_exhausted", Thrown(failureReason))
       /\ UNCHANGED <<faults, rrPointer, rrSelections>>
     ELSE IF raises THEN
       /\ faults' = faults \cup {strategy}
       /\ Return("error", Thrown(strategy))
       /\ UNCHANGED <<rrPointer, rrSelections>>
     ELSE IF selected # NULL THEN
       /\ Return("fallback",
                 BUILD_FALLBACK_DECISION(selected, strategy,
                                         FallbackConfidence[strategy],
                                         FallbackReason[strategy]))
       /\ rrPointer' = IF strategy = "round_robin"
                       THEN (rrPointer + 1) % RRModulus ELSE rrPointer
       /\ rrSelections' = IF strategy = "round_robin"
                          THEN LastSelections(Append(rrSelections, selected))
                          ELSE rrSelections
       /\ UNCHANGED faults
     ELSE
       /\ fbIndex' = fbIndex + 1
       /\ Stay
       /\ UNCHANGED <<faults, rrPointer, rrSelections>>
  /\ UNCHANGED <<profiles, cache, altCache, auditTrail, agreementCount,
                 expertCache, peer, embeddingCache, embedCalls, updaters, now,
                 script, reqCount,
                 req, consensusResult, prev>>

Fallback(raises) ==
  LET strategy == fallbackChain[fbIndex]
      selected == StrategyAgent(strategy, req)
      Stay == UNCHANGED <<pc, path, decision, candidates, agentProfiles,
                          agentScores, rankedAgents, taskOutcome,
                          validatorResults, elapsed, failureReason>>
  IN
  /\ pc = "fallback"
  /\ IF strategy = "error" THEN
       /\ ~raises
       /\ Return("fallback_exhausted", Thrown(failureReason))
       /\ UNCHANGED <<faults, rrPointer, rrSelections>>
     ELSE IF raises THEN
       /\ faults' = faults \cup {strategy}
       /\ fbIndex' = fbIndex + 1
       /\ Stay
       /\ UNCHANGED <<rrPointer, rrSelections>>
     ELSE IF selected # NULL THEN
       /\ Return("fallback",
                 BUILD_FALLBACK_DECISION(selected, strategy,
                                         FallbackConfidence[strategy],
                                         FallbackReason[strategy]))
       /\ rrPointer' = IF strategy = "round_robin"
                       THEN (rrPointer + 1) % RRModulus ELSE rrPointer
       /\ rrSelections' = IF strategy = "round_robin"
                          THEN LastSelections(Append(rrSelections, selected))
                          ELSE rrSelections
       /\ UNCHANGED faults
     ELSE
       /\ fbIndex' = fbIndex + 1
       /\ Stay
       /\ UNCHANGED <<faults, rrPointer, rrSelections>>
  /\ UNCHANGED <<profiles, cache, altCache, auditTrail, agreementCount,
                 expertCache, peer, embeddingCache, embedCalls, updaters, now,
                 script, reqCount,
                 req, consensusResult, prev>>

\* the environment injects at most one failure into a route (validator
\* task errors apart); in the fallback chain it is the lookup of the
\* success history that fails
StoreStrategies == {"success_history"}

\* ------------------------------------------------------------------------
\* UPDATE_AGENT_PROFILE_ON_EXECUTION and the expiry of a cached decision
\* ------------------------------------------------------------------------
\* exponential moving average: new_rate = 0.9 * old_rate + 0.1 * outcome
COMPUTE_NEW_SUCCESS_RATE(current_rate, success) ==
  (9 * current_rate + (IF success THEN One ELSE 0)) \div 10

\* recent_wins[0:10]
KeepLast == 10

\* rolling percentiles: a sample inside the window moves the maximum only
UPDATE_PERCENTILES(current, new_sample) ==
  [p99 |-> current.p99, max |-> MaxOf({current.max, new_sample})]

FailureThreshold == 3

\* unavailable_until = CURRENT_TIMESTAMP() + 300_seconds
UnavailableSeconds == 300

\* the profile after one reported execution; consecutiveFailures is the
\* value of CONSECUTIVE_FAILURES(agent_id)
UpdatedProfile(profile, pattern_type, success, latency_ms, consecutiveFailures) ==
  LET wins == <<[pattern_type |-> pattern_type, age_min |-> 0, success |-> success]>>
                \o profile.recent_wins
  IN [profile EXCEPT
        !.success_rate_by_type[pattern_type] =
           COMPUTE_NEW_SUCCESS_RATE(@, success),
        !.recent_wins =
           SubSeq(wins, 1, IF Len(wins) < KeepLast THEN Len(wins) ELSE KeepLast),
        !.latency_profile = UPDATE_PERCENTILES(@, latency_ms),
        !.is_available =
           IF ~success /\ consecutiveFailures > FailureThreshold THEN FALSE
           ELSE IF consecutiveFailures <= FailureThreshold THEN TRUE
           ELSE @,
        !.unavailable_until =
           IF ~success /\ consecutiveFailures > FailureThreshold
           THEN now + UnavailableSeconds
           ELSE IF consecutiveFailures <= FailureThreshold THEN NONE
           ELSE @]

\* post-execution updates applied so far, read off the recent outcomes: the
\* entries stamped CURRENT_TIMESTAMP() by the update (age 0)
RECURSIVE WinsIn(_, _)
WinsIn(store, ids) ==
  IF ids = <<>> THEN 0
  ELSE Cardinality({i \in 1..Len(store[Head(ids)].recent_wins) :
                     store[Head(ids)].recent_wins[i].age_min = 0})
       + WinsIn(store, Tail(ids))

UpdatesApplied == WinsIn(profiles, AgentOrder)

\* variant: the new outcome is inserted at the back of the list
UPDATE_AGENT_PROFILE_ON_EXECUTION_InsertAtBack(agent_id, pattern_type, success, latency_ms, consecutiveFailures) ==
  LET profile == profiles[agent_id]
      wins == profile.recent_wins \o
                <<[pattern_type |-> pattern_type, age_min |-> 0, success |-> success]>>
      updated ==
        [profile EXCEPT
           !.success_rate_by_type[pattern_type] =
              COMPUTE_NEW_SUCCESS_RATE(@, success),
           !.recent_wins =
              SubSeq(wins, 1, IF Len(wins) < KeepLast THEN Len(wins) ELSE KeepLast),
           !.latency_profile = UPDATE_PERCENTILES(@, latency_ms),
           !.is_available =
              IF ~success /\ consecutiveFailures > FailureThreshold THEN FALSE
              ELSE IF consecutiveFailures <= FailureThreshold THEN TRUE
              ELSE @,
           !.unavailable_until =
              IF ~success /\ consecutiveFailures > FailureThreshold
              THEN now + UnavailableSeconds
              ELSE IF consecutiveFailures <= FailureThreshold THEN NONE
              ELSE @]
  IN
  /\ pattern_type \in DOMAIN profile.success_rate_by_type
  /\ profiles' = [profiles EXCEPT ![agent_id] = updated]
  /\ UNCHANGED <<cache, altCache, auditTrail, rrPointer, rrSelections,
                 agreementCount, expertCache, peer, embeddingCache,
                 embedCalls, updaters, now, script, reqCount,
                 pc, req, faults, candidates, agentProfiles, agentScores,
                 rankedAgents, taskOutcome, validatorResults, elapsed,
                 consensusResult, fbIndex, failureReason, path, decision, prev>>

\* one update run from its first to its last statement with no other update
\* in between
UPDATE_AGENT_PROFILE_ON_EXECUTION(agent_id, pattern_type, success, latency_ms, consecutiveFailures) ==
  LET profile == profiles[agent_id]
      updated == UpdatedProfile(profile, pattern_type, success, latency_ms,
                                consecutiveFailures)
  IN
  /\ pattern_type \in DOMAIN profile.success_rate_by_type
  /\ profiles' = [profiles EXCEPT ![agent_id] = updated]
  /\ UNCHANGED <<cache, altCache, auditTrail, rrPointer, rrSelections,
                 agreementCount, expertCache, peer, embeddingCache,
                 embedCalls, updaters, now, script, reqCount,
                 pc, req, faults, candidates, agentProfiles, agentScores,
                 rankedAgents, taskOutcome, validatorResults, elapsed,
                 consensusResult, fbIndex, failureReason, path, decision, prev>>

\* the executions reported to the update: the pattern types on record, a
\* latency inside the agent's window, a failure streak below or above the
\* threshold
PatternTypes == {"security", "compliance"}
FailureStreaks == {0, FailureThreshold + 1}

\* the time-to-live of a cached decision runs out; an expiry during a route
\* is seen by the next lookup as one between two routes is
CacheExpire(r) ==
  /\ pc = "idle"
  /\ cache[r] # NoDecision
  /\ cache' = [cache EXCEPT ![r] = NoDecision]
  /\ UNCHANGED <<profiles, altCache, auditTrail, rrPointer, rrSelections,
                 agreementCount, expertCache, peer, embeddingCache,
                 embedCalls, updaters, now, script,
                 reqCount, pc, req, faults, candidates, agentProfiles,
                 agentScores, rankedAgents, taskOutcome, validatorResults,
                 elapsed, consensusResult, fbIndex, failureReason, path,
                 decision, prev>>

\* ------------------------------------------------------------------------
\* Specifications
\* ------------------------------------------------------------------------
Next ==
  \/ \E r \in Requests : RouteReject(r)
  \/ \E r \in Requests : RouteCached(r)
  \/ \E r \in Requests : RouteMetadata(r)
  \/ \E r \in Requests, fault \in SearchFaults : RouteSearch(r, fault)
  \/ \E fault \in ScoreFaults, errs \in ErrorSets : RouteScore(fault, errs, {})
  \/ \E d \in WaitDurations : Collect(d)
  \/ Determine
  \/ AfterConsensus
  \/ \E fault \in FinishFaults : Finish(fault)
  \/ Fallback(FALSE)
  \/ faults = {} /\ fallbackChain[fbIndex] \in StoreStrategies /\ Fallback(TRUE)

Spec == Init /\ [][Next]_vars

\* routing next to the post-execution update and the expiry of cached
\* decisions
UpdateStep ==
  /\ UpdatesApplied < MaxUpdates
  /\ \E a \in Agents, t \in PatternTypes, success \in BOOLEAN, streak \in FailureStreaks :
       UPDATE_AGENT_PROFILE_ON_EXECUTION(a, t, success,
                                         profiles[a].latency_profile.p99, streak)

\* one request for each path of a route: rejected, metadata routing,
\* fallback chain, primary path with consensus (cached when it returns)
StoreRequests == {ReqInvalid, ReqNoEmbedding, ReqAllExcluded, ReqSecurity}

\* the routes run without injected failures and without waiting
NextStore ==
  \/ \E r \in StoreRequests : RouteReject(r)
  \/ \E r \in StoreRequests : RouteCached(r)
  \/ \E r \in StoreRequests : RouteMetadata(r)
  \/ \E r \in StoreRequests : RouteSearch(r, "none")
  \/ RouteScore("none", {}, {})
  \/ Collect(0)
  \/ Determine
  \/ AfterConsensus
  \/ Finish("none")
  \/ Fallback(FALSE)
  \/ UpdateStep
  \/ \E r \in StoreRequests : CacheExpire(r)

SpecStore == Init /\ [][NextStore]_vars

\* VALIDATE_BYZANTINE alone, over every combination of task outcomes
InitConsensus ==
  /\ profiles = Pool([a \in Agents |-> TRUE])
  /\ pc = "collect"
  /\ taskOutcome \in [1..Validators -> {"true", "false", "error"}]
  /\ RunInit

NextConsensus ==
  \/ \E d \in WaitDurations : Collect(d)
  \/ Determine

SpecConsensus == InitConsensus /\ [][NextConsensus]_vars

\* APPLY_FALLBACK_STRATEGY alone: every availability of the pool, every
\* failure reason, the alternatives earlier routes can have cached, every
\* position of the rotation pointer, any strategy raising
CachedAlternatives == {<<>>, <<"a1">>, <<"a2", "a3">>, <<"a3", "a1">>}

FailureReasons == {"No agents match constraints", "Consensus failed: ESCALATE",
                   "Consensus failed: ERROR"}

InitFallback ==
  /\ \E avail \in [Agents -> BOOLEAN] : profiles = Pool(avail)
  /\ pc = "fallback"
  /\ req \in {ReqPlain, ReqSecurity, ReqConsensus}
  /\ \E alts \in CachedAlternatives : altCache = [p \in PatternIds |-> alts]
  /\ auditTrail = {}
  /\ rrPointer \in 0..(RRModulus - 1)
  /\ rrSelections = <<>>
  /\ failureReason \in FailureReasons
  /\ cache = [r \in Requests |-> NoDecision]
  /\ agreementCount = 0
  /\ expertCache = [a \in Agents |-> NoExperts]
  /\ peer = NoPeer
  /\ embeddingCache = {}
  /\ embedCalls = 0
  /\ updaters = NoUpdaters
  /\ now = 0
  /\ script = NoScript
  /\ reqCount = 1
  /\ faults = {}
  /\ candidates = HnswCandidates
  /\ agentProfiles = [i \in 1..Len(HnswCandidates) |->
                        profiles[HnswCandidates[i].agent_id]]
  /\ agentScores = NoScores
  /\ rankedAgents = <<>>
  /\ taskOutcome = <<>>
  /\ validatorResults = <<>>
  /\ elapsed = 0
  /\ consensusResult = "NONE"
  /\ fbIndex = 1
  /\ path = "none"
  /\ decision = NoDecision
  /\ prev = NoPrev

NextFallback == \E raises \in BOOLEAN : Fallback(raises)

SpecFallback == InitFallback /\ [][NextFallback]_vars

\* the loop over fallbackChain is sequential code of the coordinating task:
\* once entered, its next iteration is eventually executed
SpecFallbackFair == SpecFallback /\ WF_vars(NextFallback)

\* phases 7-15 of one route, from the filtered candidates on: any single
\* expert or all of them raising, any count left behind
\* GET_VALIDATOR_AGREEMENT_COUNT()
FailingSets == {{}} \cup {{name} : name \in Range(ExpertNames)}
                    \cup {Range(ExpertNames)}

InitScore ==
  /\ \E avail \in Availabilities : profiles = Pool(avail)
  /\ pc = "score"
  /\ req \in {ReqPlain, ReqSecurity, ReqUrgent, ReqConsensus}
  /\ candidates \in {HnswCandidates, METADATA_FALLBACK_SEARCH(req)}
  /\ candidates # <<>>
  /\ agentProfiles = [i \in 1..Len(candidates) |-> profiles[candidates[i].agent_id]]
  /\ FILTER_AGENTS(agentProfiles, req.constraints, req.excluded_agents) # <<>>
  /\ agreementCount \in 0..Validators
  /\ cache = [r \in Requests |-> NoDecision]
  /\ altCache = [p \in PatternIds |-> <<>>]
  /\ auditTrail = {}
  /\ rrPointer = 0
  /\ rrSelections = <<>>
  /\ expertCache = [a \in Agents |-> NoExperts]
  /\ peer = NoPeer
  /\ embeddingCache = {}
  /\ embedCalls = 0
  /\ updaters = NoUpdaters
  /\ now = 0
  /\ script = NoScript
  /\ reqCount = 1
  /\ faults = {}
  /\ agentScores = NoScores
  /\ rankedAgents = <<>>
  /\ taskOutcome = <<>>
  /\ validatorResults = <<>>
  /\ elapsed = 0
  /\ consensusResult = "NONE"
  /\ fbIndex = 1
  /\ failureReason = ""
  /\ path = "none"
  /\ decision = NoDecision
  /\ prev = NoPrev

NextScore ==
  \/ \E failing \in FailingSets : RouteScore("none", {}, failing)
  \/ \E d \in WaitDurations : Collect(d)
  \/ Determine
  \/ AfterConsensus
  \/ \E fault \in FinishFaults : Finish(fault)
  \/ Fallback(FALSE)

SpecScore == InitScore /\ [][NextScore]_vars

\* phases 8-15 of one route over a pool of five eligible agents with any
\* scores, ties included
RankIds == <<"a1", "a2", "a3", "a4", "a5">>
ScoreLevels == {3000, 5000, 8000}

\* the non-empty sublists of a list, in its order
SubLists(list) ==
  { SelectSeq(list, LAMBDA x : x \in S) : S \in (SUBSET Range(list)) \ {{}} }

\* phase 8: rank the eligible agents
Rank ==
  /\ pc = "rank"
  /\ rankedAgents' = SORT_BY_SCORE(IdsOf(agentProfiles), agentScores)
  /\ pc' = "confidence"
  /\ UNCHANGED <<profiles, cache, altCache, auditTrail, rrPointer, rrSelections,
                 agreementCount, expertCache, peer, embeddingCache,
                 embedCalls, updaters, now, script,
                 reqCount, req, faults, candidates, agentProfiles, agentScores,
                 taskOutcome, validatorResults, elapsed, consensusResult,
                 fbIndex, failureReason, path, decision, prev>>

InitRank ==
  /\ profiles = Pool([a \in Agents |-> TRUE])
  /\ pc = "rank"
  /\ req = ReqPlain
  /\ \E ids \in SubLists(RankIds) :
       agentProfiles = [i \in 1..Len(ids) |-> [agent_id |-> ids[i]]]
  /\ agentScores \in [Range(RankIds) -> ScoreLevels]
  /\ candidates = <<>>
  /\ agreementCount = 0
  /\ cache = [r \in Requests |-> NoDecision]
  /\ altCache = [p \in PatternIds |-> <<>>]
  /\ auditTrail = {}
  /\ rrPointer = 0
  /\ rrSelections = <<>>
  /\ expertCache = [a \in Range(RankIds) |-> NoExperts]
  /\ peer = NoPeer
  /\ embeddingCache = {}
  /\ embedCalls = 0
  /\ updaters = NoUpdaters
  /\ now = 0
  /\ script = NoScript
  /\ reqCount = 1
  /\ faults = {}
  /\ rankedAgents = <<>>
  /\ taskOutcome = <<>>
  /\ validatorResults = <<>>
  /\ elapsed = 0
  /\ consensusResult = "NONE"
  /\ fbIndex = 1
  /\ failureReason = ""
  /\ path = "none"
  /\ decision = NoDecision
  /\ prev = NoPrev

NextRank ==
  \/ Rank
  \/ \E fault \in FinishFaults : Finish(fault)

SpecRank == InitRank /\ [][NextRank]_vars

\* ------------------------------------------------------------------------
\* Successive round_robin selections: requests with no eligible agent are
\* routed one after the other over an unchanged pool; the rotation pointer
\* is left wherever earlier selections put it
\* ------------------------------------------------------------------------
InitRotate ==
  /\ \E avail \in [Agents -> BOOLEAN] : profiles = Pool(avail)
  /\ pc = "idle"
  /\ rrPointer \in 0..(RRModulus - 1)
  /\ rrSelections = <<>>
  /\ cache = [r \in Requests |-> NoDecision]
  /\ altCache = [p \in PatternIds |-> <<>>]
  /\ auditTrail = {}
  /\ agreementCount = 0
  /\ expertCache = [a \in Agents |-> NoExperts]
  /\ peer = NoPeer
  /\ embeddingCache = {}
  /\ embedCalls = 0
  /\ updaters = NoUpdaters
  /\ now = 0
  /\ script = NoScript
  /\ reqCount = 0
  /\ req = ReqPlain
  /\ faults = {}
  /\ candidates = <<>>
  /\ agentProfiles = <<>>
  /\ agentScores = NoScores
  /\ rankedAgents = <<>>
  /\ taskOutcome = <<>>
  /\ validatorResults = <<>>
  /\ elapsed = 0
  /\ consensusResult = "NONE"
  /\ fbIndex = 1
  /\ failureReason = ""
  /\ path = "none"
  /\ decision = NoDecision
  /\ prev = NoPrev

NextRotate ==
  \/ RouteSearchWithin(ReqAllExcluded, "none", MaxSelections)
  \/ \E raises \in BOOLEAN : Fallback(raises)

SpecRotate == InitRotate /\ [][NextRotate]_vars

\* ------------------------------------------------------------------------
\* Post-execution updates on their own: agent a1 starts with a history of
\* k earlier executions, the most recent first
\* ------------------------------------------------------------------------
OldWins(k) ==
  [i \in 1..k |->
     [pattern_type |-> "security", age_min |-> 10 * i, success |-> (i % 2 = 1)]]

HistoryLengths == {0, KeepLast - 2, KeepLast - 1, KeepLast}

InitWins ==
  /\ \E k \in HistoryLengths :
       profiles = [Pool([a \in Agents |-> TRUE])
                     EXCEPT !["a1"].recent_wins = OldWins(k)]
  /\ pc = "idle"
  /\ taskOutcome = <<>>
  /\ RunInit

ExecutionStep ==
  /\ UpdatesApplied < MaxExecutions
  /\ \E a \in Agents, t \in PatternTypes, success \in BOOLEAN, streak \in FailureStreaks :
       UPDATE_AGENT_PROFILE_ON_EXECUTION(a, t, success,
                                         profiles[a].latency_profile.p99, streak)

NextWins == ExecutionStep

SpecWins == InitWins /\ [][NextWins]_vars

\* ------------------------------------------------------------------------
\* UPDATE_AGENT_PROFILE_ON_EXECUTION run by two tasks at once: each fetches
\* the profile, changes its own copy and upserts the whole copy
\* ------------------------------------------------------------------------
UpdateUnchanged ==
  UNCHANGED <<cache, altCache, auditTrail, rrPointer, rrSelections,
              agreementCount, expertCache, peer, embeddingCache, embedCalls,
              now, script, reqCount, pc, req, faults, candidates, agentProfiles,
              agentScores, rankedAgents, taskOutcome, validatorResults,
              elapsed, consensusResult, fbIndex, failureReason, path,
              decision, prev>>

\* profile = GET_AGENT_PROFILE(agent_id)
UpdateFetch(u, agent_id, pattern_type, success, latency_ms, consecutiveFailures) ==
  /\ updaters[u].pc = "idle"
  /\ pattern_type \in DOMAIN profiles[agent_id].success_rate_by_type
  /\ updaters' =
       [updaters EXCEPT ![u] =
          [pc |-> "fetched", agent_id |-> agent_id, pattern_type |-> pattern_type,
           success |-> success, latency_ms |-> latency_ms,
           consecutiveFailures |-> consecutiveFailures,
           profile |-> <<profiles[agent_id]>>]]
  /\ UNCHANGED profiles
  /\ UpdateUnchanged

\* the copy is updated and UPSERT_AGENT_PROFILE(profile) writes it back
UpdatePersist(u) ==
  LET t == updaters[u]
  IN
  /\ t.pc = "fetched"
  /\ profiles' =
       [profiles EXCEPT ![t.agent_id] =
          UpdatedProfile(t.profile[1], t.pattern_type, t.success, t.latency_ms,
                         t.consecutiveFailures)]
  /\ updaters' = [updaters EXCEPT ![u].pc = "done", ![u].profile = <<>>]
  /\ UpdateUnchanged

InitUpdates ==
  /\ \E k \in HistoryLengths :
       profiles = [Pool([a \in Agents |-> TRUE])
                     EXCEPT !["a1"].recent_wins = OldWins(k)]
  /\ pc = "idle"
  /\ taskOutcome = <<>>
  /\ RunInit

NextUpdates ==
  \/ \E u \in UpdateTasks, a \in Agents, t \in PatternTypes, success \in BOOLEAN,
        streak \in FailureStreaks :
       UpdateFetch(u, a, t, success, profiles[a].latency_profile.p99, streak)
  \/ \E u \in UpdateTasks : UpdatePersist(u)

SpecUpdates == InitUpdates /\ [][NextUpdates]_vars

\* ------------------------------------------------------------------------
\* Executions reported one after the other, time passing, and requests with
\* no eligible agent routed through the fallback chain in between
\* ------------------------------------------------------------------------
\* time passes: the clock moves on by the length of the unavailability window
Tick ==
  /\ now < MaxTicks * UnavailableSeconds
  /\ now' = now + UnavailableSeconds
  /\ UNCHANGED <<profiles, cache, altCache, auditTrail, rrPointer, rrSelections,
                 agreementCount, expertCache, peer, embeddingCache, embedCalls,
                 updaters, script, reqCount, pc, req, faults, candidates,
                 agentProfiles, agentScores, rankedAgents, taskOutcome,
                 validatorResults, elapsed, consensusResult, fbIndex,
                 failureReason, path, decision, prev>>

InitRecover ==
  /\ profiles = Pool([a \in Agents |-> TRUE])
  /\ pc = "idle"
  /\ taskOutcome = <<>>
  /\ RunInit

NextRecover ==
  \/ UpdateStep
  \/ Tick
  \/ RouteSearch(ReqAllExcluded, "none")
  \/ Fallback(FALSE)

SpecRecover == InitRecover /\ [][NextRecover]_vars

\* ------------------------------------------------------------------------
\* insertPatterns of scripts/embed-daxiom-patterns.js
\* ------------------------------------------------------------------------
\* the patterns of the file as the loop treats them: plain has a description
\* and tags; untagged has no tags (the spread of p.tags throws); undescribed
\* has neither description nor title (description.substring throws)
PatternKinds == {"plain", "untagged", "undescribed"}

PatternLists ==
  UNION {[1..n -> PatternKinds] : n \in 0..MaxPatterns}

\* how embedText settles: resolved with the values, or rejected on HTTP 429,
\* on another status, on an unparsable body, on the 10 s timeout
ResponseKinds == {"ok", "rate_limited", "api_error", "unparsable", "timeout"}

ScriptUnchanged ==
  UNCHANGED <<profiles, cache, altCache, auditTrail, rrPointer, rrSelections,
              agreementCount, expertCache, peer, embeddingCache, embedCalls,
              updaters, now, reqCount, pc, req, faults, candidates,
              agentProfiles, agentScores, rankedAgents, taskOutcome,
              validatorResults, elapsed, consensusResult, fbIndex,
              failureReason, path, decision, prev>>

\* loop test passed: embedText(description, apiKey) is called and awaited.
\* issued records, for each request, whether the rate-limit delay elapsed
\* since the request before it settled.
ScriptRequest ==
  /\ script.pc = "loop"
  /\ script.i < script.total
  /\ script' = [script EXCEPT !.pc = "await",
                              !.issued = Append(@, script.delayed)]
  /\ ScriptUnchanged

\* variant: a failed pattern ends the loop
ScriptRespond_StopOnFailure(response) ==
  LET p == script.patterns[script.i + 1]
  IN
  /\ script.pc = "await"
  /\ IF response = "ok" /\ p = "plain" THEN
       script' = [script EXCEPT
                    !.embedded = Append(@, script.i),
                    !.delayed = FALSE,
                    !.pc = IF script.i < script.total - 1 THEN "delay" ELSE "loop",
                    !.i = IF script.i < script.total - 1 THEN @ ELSE @ + 1]
     ELSE
       script' = [script EXCEPT
                    !.failed = Append(@, script.i),
                    !.delayed = FALSE,
                    !.pc = "done"]
  /\ ScriptUnchanged

\* embedText settles: the rest of the try block, or the catch block
ScriptRespond(response) ==
  LET p == script.patterns[script.i + 1]
  IN
  /\ script.pc = "await"
  /\ IF response = "ok" /\ p = "plain" THEN
       script' = [script EXCEPT
                    !.embedded = Append(@, script.i),
                    !.delayed = FALSE,
                    !.pc = IF script.i < script.total - 1 THEN "delay" ELSE "loop",
                    !.i = IF script.i < script.total - 1 THEN @ ELSE @ + 1]
     ELSE
       script' = [script EXCEPT
                    !.failed = Append(@, script.i),
                    !.delayed = FALSE,
                    !.pc = "loop",
                    !.i = @ + 1]
  /\ ScriptUnchanged

\* await new Promise(r => setTimeout(r, RATE_LIMIT_MS)), then i++
ScriptDelay ==
  /\ script.pc = "delay"
  /\ script' = [script EXCEPT !.delayed = TRUE, !.pc = "loop", !.i = @ + 1]
  /\ ScriptUnchanged

\* loop test failed: return results
ScriptReturn ==
  /\ script.pc = "loop"
  /\ script.i >= script.total
  /\ script' = [script EXCEPT !.pc = "done"]
  /\ ScriptUnchanged

\* insertPatterns(patterns, apiKey) entered with the loaded patterns
InitScript ==
  /\ profiles = Pool([a \in Agents |-> TRUE])
  /\ pc = "idle"
  /\ taskOutcome = <<>>
  /\ cache = [r \in Requests |-> NoDecision]
  /\ altCache = [p \in PatternIds |-> <<>>]
  /\ auditTrail = {}
  /\ rrPointer = 0
  /\ rrSelections = <<>>
  /\ agreementCount = 0
  /\ expertCache = [a \in Agents |-> NoExperts]
  /\ peer = NoPeer
  /\ embeddingCache = {}
  /\ embedCalls = 0
  /\ updaters = NoUpdaters
  /\ now = 0
  /\ reqCount = 0
  /\ req = ReqPlain
  /\ faults = {}
  /\ candidates = <<>>
  /\ agentProfiles = <<>>
  /\ agentScores = NoScores
  /\ rankedAgents = <<>>
  /\ validatorResults = <<>>
  /\ elapsed = 0
  /\ consensusResult = "NONE"
  /\ fbIndex = 1
  /\ failureReason = ""
  /\ path = "none"
  /\ decision = NoDecision
  /\ prev = NoPrev
  /\ \E patterns \in PatternLists :
       script = [pc |-> "loop", patterns |-> patterns, i |-> 0,
                 embedded |-> <<>>, failed |-> <<>>, total |-> Len(patterns),
                 delayed |-> FALSE, issued |-> <<>>]

NextScript ==
  \/ ScriptRequest
  \/ \E response \in ResponseKinds : ScriptRespond(response)
  \/ ScriptDelay
  \/ ScriptReturn

SpecScript == InitScript /\ [][NextScript]_vars

\* ------------------------------------------------------------------------
\* The similarity expert on its own, as the unit tests call it: a candidate
\* list in search order (nearest first) and one call per agent id
\* ------------------------------------------------------------------------
SimilarityLevels == {0, 4500, 9000}

\* the orderings of the non-empty sets of agents
AgentLists ==
  { ids \in UNION { [1..n -> Agents] : n \in 1..Cardinality(Agents) } :
      \A i \in 1..Len(ids), j \in 1..Len(ids) : i # j => ids[i] # ids[j] }

CandidateLists ==
  { cands \in UNION { [1..Len(ids) -> [agent_id : Agents, similarity : SimilarityLevels]] :
                      ids \in AgentLists } :
      /\ \E ids \in AgentLists : ids = [i \in 1..Len(cands) |-> cands[i].agent_id]
      /\ \A i \in 1..(Len(cands) - 1) : cands[i].similarity >= cands[i + 1].similarity }

\* no result of the expert recorded yet
Untested == [NoExperts EXCEPT !["similarity"] = NONE]

InitSimilarity ==
  /\ profiles = Pool([a \in Agents |-> TRUE])
  /\ pc = "test_similarity"
  /\ candidates \in CandidateLists
  /\ expertCache = [a \in Agents |-> Untested]
  /\ peer = NoPeer
  /\ embeddingCache = {}
  /\ embedCalls = 0
  /\ updaters = NoUpdaters
  /\ now = 0
  /\ script = NoScript
  /\ req = ReqPlain
  /\ cache = [r \in Requests |-> NoDecision]
  /\ altCache = [p \in PatternIds |-> <<>>]
  /\ auditTrail = {}
  /\ rrPointer = 0
  /\ rrSelections = <<>>
  /\ agreementCount = 0
  /\ reqCount = 0
  /\ faults = {}
  /\ agentProfiles = <<>>
  /\ agentScores = NoScores
  /\ rankedAgents = <<>>
  /\ taskOutcome = <<>>
  /\ validatorResults = <<>>
  /\ elapsed = 0
  /\ consensusResult = "NONE"
  /\ fbIndex = 1
  /\ failureReason = ""
  /\ path = "none"
  /\ decision = NoDecision
  /\ prev = NoPrev

\* result = EXPERT_SIMILARITY(agentId, candidates, similarities)
TestExpertSimilarity(agentId) ==
  /\ pc = "test_similarity"
  /\ expertCache[agentId].similarity = NONE
  /\ expertCache' =
       [expertCache EXCEPT ![agentId].similarity =
          EXPERT_SIMILARITY(agentId, candidates,
                            EXTRACT_SIMILARITY_SCORES(candidates))]
  /\ UNCHANGED <<profiles, cache, altCache, auditTrail, rrPointer, rrSelections,
                 agreementCount, peer, embeddingCache, embedCalls, updaters,
                 now, script, reqCount, pc, req, faults, candidates,
                 agentProfiles, agentScores, rankedAgents, taskOutcome,
                 validatorResults, elapsed, consensusResult, fbIndex,
                 failureReason, path, decision, prev>>

NextSimilarity == \E agentId \in Agents : TestExpertSimilarity(agentId)

SpecSimilarity == InitSimilarity /\ [][NextSimilarity]_vars

\* ------------------------------------------------------------------------
\* Two requests routed at the same time: the coordinating task of the model
\* and a second task (peer) that runs the same SemanticRoute on its own
\* request.  The two share the cache behind CACHE_SET / GET_EXPERT_SCORES.
\* ------------------------------------------------------------------------
\* requests that ask for the scoring breakdown and need no consensus
ExplainRequests == {ReqPlain, ReqUrgent}

PeerRequests == {ReqPlain, ReqUrgent, ReqSecurity}

\* phases 3-8 of the peer: every eligible agent is scored for the peer's
\* request and COMPUTE_EXPERT_SCORE stores each vector under the agent's id
PeerScore(r) ==
  LET loaded == [i \in 1..Len(HnswCandidates) |->
                   profiles[HnswCandidates[i].agent_id]]
      eligibleIds == IdsOf(FILTER_AGENTS(loaded, r.constraints, r.excluded_agents))
      scores == [a \in Agents |->
                   IF a \notin Range(eligibleIds) THEN 0
                   ELSE COMPUTE_EXPERT_SCORE(profiles[a], r, Ctx, HnswCandidates, {})]
  IN
  /\ peer.pc = "idle"
  /\ Len(eligibleIds) > 0
  /\ expertCache' =
       [a \in Agents |->
          IF a \in Range(eligibleIds)
          THEN ExpertScores(profiles[a], r, Ctx, HnswCandidates, {})
          ELSE expertCache[a]]
  /\ peer' = [pc |-> "confidence", req |-> r,
              primary |-> SORT_BY_SCORE(eligibleIds, scores)[1],
              scoring_breakdown |-> NoBreakdown]
  /\ UNCHANGED <<profiles, cache, altCache, auditTrail, rrPointer, rrSelections,
                 agreementCount, embeddingCache, embedCalls, updaters, now,
                 script,
                 reqCount, pc, req, faults,
                 candidates, agentProfiles, agentScores, rankedAgents,
                 taskOutcome, validatorResults, elapsed, consensusResult,
                 fbIndex, failureReason, path, decision, prev>>

\* phases 10-14 of the peer, as far as the breakdown of its decision goes
PeerFinish ==
  /\ peer.pc = "confidence"
  /\ peer' = [peer EXCEPT
                !.pc = "done",
                !.scoring_breakdown = BUILD_SCORING_BREAKDOWN(peer.req, peer.primary)]
  /\ UNCHANGED <<profiles, cache, altCache, auditTrail, rrPointer, rrSelections,
                 agreementCount, expertCache, embeddingCache, embedCalls,
                 updaters, now, script,
                 reqCount, pc, req, faults,
                 candidates, agentProfiles, agentScores, rankedAgents,
                 taskOutcome, validatorResults, elapsed, consensusResult,
                 fbIndex, failureReason, path, decision, prev>>

InitShared ==
  /\ \E avail \in Availabilities : profiles = Pool(avail)
  /\ pc = "idle"
  /\ taskOutcome = <<>>
  /\ RunInit

NextShared ==
  \/ \E r \in ExplainRequests : RouteSearch(r, "none")
  \/ RouteScore("none", {}, {})
  \/ Finish("none")
  \/ \E r \in PeerRequests : PeerScore(r)
  \/ PeerFinish



SpecShared == InitShared /\ [][NextShared]_vars

\* ------------------------------------------------------------------------
\* Phase 3 with EMBED_PATTERN unfolded: cache lookup, the call of the
\* embedding API, WAIT and RETRY on a rate limit, metadata routing on a
\* timeout or an API error
\* ------------------------------------------------------------------------
\* what one CALL_GEMINI_EMBEDDING_API can yield
ApiOutcomes == {"ok", "rate_limited", "timeout", "api_error"}

EmbedPositions == {"embed_call", "embed_wait"}

CountCall(n) == IF n < MaxEmbedCalls THEN n + 1 ELSE n

EmbedUnchanged ==
  UNCHANGED <<cache, altCache, auditTrail, rrPointer, rrSelections,
              agreementCount, expertCache, peer, updaters, now, script>>

\* the request carries no embedding: EMBED_PATTERN is entered and looks up
\* its cache
EmbedBegin(r) ==
  /\ Start(r)
  /\ r.valid
  /\ cache[r] = NoDecision
  /\ r.pattern_embedding = NULL
  /\ embedCalls' = 0
  /\ faults' = {}
  /\ consensusResult' = "NONE"
  /\ pc' = IF r.pattern_id \in embeddingCache THEN "search" ELSE "embed_call"
  /\ UNCHANGED <<embeddingCache, candidates, agentProfiles, agentScores,
                 rankedAgents, taskOutcome, validatorResults, elapsed, fbIndex,
                 failureReason, path, decision>>
  /\ EmbedUnchanged

\* one call of the embedding API and the TRY/CATCH around it
EmbedCall(outcome) ==
  /\ pc = "embed_call"
  /\ embedCalls' = CountCall(embedCalls)
  /\ IF outcome = "ok" THEN
       /\ embeddingCache' = embeddingCache \cup {req.pattern_id}
       /\ pc' = "search"
       /\ UNCHANGED <<faults, candidates, agentProfiles, agentScores,
                      rankedAgents, taskOutcome, validatorResults, elapsed,
                      fbIndex, failureReason, path, decision>>
     ELSE IF outcome = "rate_limited" THEN
       /\ pc' = "embed_wait"
       /\ UNCHANGED <<embeddingCache, faults, candidates, agentProfiles,
                      agentScores, rankedAgents, taskOutcome, validatorResults,
                      elapsed, fbIndex, failureReason, path, decision>>
     ELSE
       /\ faults' = {"embedding_error"}
       /\ Return("metadata", ROUTE_BY_METADATA(req))
       /\ UNCHANGED embeddingCache
  /\ UNCHANGED <<profiles, reqCount, req, consensusResult, prev>>
  /\ EmbedUnchanged

\* WAIT(160_ms), then RETRY EMBED_PATTERN: the cache is looked up again
EmbedWait ==
  /\ pc = "embed_wait"
  /\ pc' = IF req.pattern_id \in embeddingCache THEN "search" ELSE "embed_call"
  /\ UNCHANGED <<profiles, embeddingCache, embedCalls, updaters, now, script,
                 reqCount, req, faults,
                 candidates,
                 agentProfiles, agentScores, rankedAgents, taskOutcome,
                 validatorResults, elapsed, consensusResult, fbIndex,
                 failureReason, path, decision, prev>>
  /\ EmbedUnchanged

\* phases 4-6 of a route whose embedding was generated
EmbedSearch(fault) ==
  /\ pc = "search"
  /\ SearchPhases(req, fault)
  /\ UNCHANGED <<profiles, reqCount, req, prev>>

NextEmbed ==
  \/ EmbedBegin(ReqNoEmbedding)
  \/ \E outcome \in ApiOutcomes : EmbedCall(outcome)
  \/ EmbedWait
  \/ \E fault \in SearchFaults : EmbedSearch(fault)
  \/ RouteScore("none", {}, {})
  \/ \E d \in WaitDurations : Collect(d)
  \/ Determine
  \/ AfterConsensus
  \/ Finish("none")
  \/ \E raises \in BOOLEAN : Fallback(raises)

SpecEmbed == Init /\ [][NextEmbed]_vars

\* EMBED_PATTERN is sequential code of the coordinating task: a call that can
\* be made is eventually made and a WAIT eventually ends.  What the embedding
\* API answers is not constrained.
SpecEmbedFair ==
  /\ SpecEmbed
  /\ WF_vars(\E outcome \in ApiOutcomes : EmbedCall(outcome))
  /\ WF_vars(EmbedWait)

\* ------------------------------------------------------------------------
\* Properties
\* ------------------------------------------------------------------------
\* the order of the fallback strategies as the specification states it
StrategyRank ==
  [alternatives |-> 1, skill_match |-> 2, success_history |-> 3,
   round_robin |-> 4, default_agent |-> 5, error |-> 6]

StrategyNames == {"alternatives", "skill_match", "success_history",
                  "round_robin", "default_agent"}

SomeAvailable == \E a \in Agents : profiles[a].is_available

\* whether a strategy has an agent to offer in the current pool, stated
\* from the pool and the caches alone
CanSucceed(strategy, pattern) ==
  CASE strategy = "alternatives" ->
         \E i \in 1..Len(altCache[pattern.pattern_id]) :
           profiles[altCache[pattern.pattern_id][i]].is_available
    [] strategy = "skill_match" ->
         \E a \in Agents :
           /\ profiles[a].is_available
           /\ \E i \in 1..Len(EXTRACT_SKILLS(pattern.metadata)) :
                EXTRACT_SKILLS(pattern.metadata)[i] \in profiles[a].skills
    [] strategy = "success_history" -> SomeAvailable
    [] strategy = "round_robin" -> SomeAvailable
    [] strategy = "default_agent" -> profiles[DefaultAgent].is_available

FallbackReturned == pc = "idle" /\ path \in {"fallback", "fallback_exhausted"}

ReturnedRank ==
  IF path = "fallback" THEN StrategyRank[decision.fallback_applied] ELSE 6

\* C1: the fallback chain returns a decision tagged with strategy k only if
\* every strategy before k raised or had no agent to offer, and strategy k
\* itself had one; the chain ends in the error only if that holds for all
\* five strategies.
C1_FallbackOrdering ==
  FallbackReturned =>
    /\ \A s \in StrategyNames :
         StrategyRank[s] < ReturnedRank => (s \in faults \/ ~CanSucceed(s, req))
    /\ path = "fallback" =>
         /\ decision.fallback_applied \notin faults
         /\ CanSucceed(decision.fallback_applied, req)
         /\ profiles[decision.primary_agent].is_available
         /\ decision.confidence_score = FallbackConfidence[decision.fallback_applied]

\* C1 witness: round_robin answers after alternatives and skill_match had no
\* agent and success_history raised
C1_Witness ==
  /\ FallbackReturned
  /\ path = "fallback"
  /\ decision.fallback_applied = "round_robin"
  /\ faults = {"success_history"}
  /\ SomeAvailable

AllReported == Len(validatorResults) = 5
WithinDeadline == elapsed <= 50
ConsensusReturned == pc = "consensus_done"

\* C2 (as amended): the consensus validation returns APPROVE if and only if
\* at least 3 of the collected outcomes are true and the elapsed time never
\* exceeded the 50 ms group deadline at a check.
C2_ApproveIffThreeTrueInTime ==
  ConsensusReturned =>
    (consensusResult = "APPROVE"
       <=> (COUNT_TRUE(validatorResults) >= 3 /\ WithinDeadline))

\* C2 witness: three true and two abstentions, approved
C2_Witness ==
  /\ ConsensusReturned
  /\ consensusResult = "APPROVE"
  /\ COUNT_TRUE(validatorResults) = 3
  /\ COUNT_NULL(validatorResults) = 2

\* C2 as stated: with all five outcomes in, APPROVE if and only if at least
\* 3 of the 5 are true.
C2_AsStated ==
  (ConsensusReturned /\ AllReported) =>
    (consensusResult = "APPROVE" <=> COUNT_TRUE(validatorResults) >= 3)

\* C4 as stated: with all five outcomes in before the deadline, ESCALATE
\* exactly when fewer than 3 are true and true plus abstentions is below 3.
C4_AsStated ==
  (ConsensusReturned /\ AllReported /\ WithinDeadline) =>
    (consensusResult = "ESCALATE"
       <=> (/\ COUNT_TRUE(validatorResults) < 3
            /\ COUNT_TRUE(validatorResults) + COUNT_NULL(validatorResults) < 3))

\* C5 as stated: when all five validators have reported within the deadline
\* the result is never TIMEOUT.
C5_AsStated ==
  (ConsensusReturned /\ AllReported /\ WithinDeadline) =>
    consensusResult # "TIMEOUT"

RouteReturned == pc = "idle" /\ reqCount > 0

PrimaryDecision == RouteReturned /\ path = "primary" /\ decision.kind = "decision"

\* C3 as stated: no decision built by the primary path is returned for a
\* request whose consensus result was ESCALATE or TIMEOUT.
C3_AsStated ==
  PrimaryDecision => decision.consensus_result \notin {"ESCALATE", "TIMEOUT"}

TwoAgreeThreeAbstain ==
  /\ ConsensusReturned
  /\ AllReported
  /\ WithinDeadline
  /\ COUNT_TRUE(validatorResults) = 2
  /\ COUNT_NULL(validatorResults) = 3

\* C6 as stated: when 2 of the 5 validators agree and the other 3 abstain
\* before the deadline, the consensus result is ESCALATE and the route goes
\* on to the fallback chain, not to the confidence calibration.
C6_AsStated ==
  [][TwoAgreeThreeAbstain => (consensusResult = "ESCALATE" /\ pc' = "fallback")]_vars

\* the hard constraints of a request, stated on the stored profile
MeetsHardConstraints(a, r) ==
  /\ a \notin r.excluded_agents
  /\ r.constraints.max_latency_ms = NONE
       \/ profiles[a].latency_profile.p99 <= r.constraints.max_latency_ms
  /\ r.constraints.required_security_level = NONE
       \/ profiles[a].security_level >= r.constraints.required_security_level
  /\ \A i \in 1..Len(r.constraints.skill_constraints) :
       r.constraints.skill_constraints[i] \in profiles[a].skills

ZeroEligible(r) == \A a \in Agents : ~MeetsHardConstraints(a, r)

\* C8 as stated: when the constraint filter leaves zero eligible agents the
\* decision returned is never tagged alternatives, whatever was routed
\* before.
C8_AsStated ==
  (RouteReturned /\ path = "fallback" /\ ZeroEligible(req)) =>
    decision.fallback_applied # "alternatives"

\* C9 as stated: the same request routed twice in a row, with the same
\* injected failures and the same consensus outcome, yields the same primary
\* agent and the same confidence score.
C9_AsStated ==
  (/\ RouteReturned
   /\ prev.valid
   /\ prev.faults = faults
   /\ prev.decision.kind = "decision"
   /\ decision.kind = "decision"
   /\ prev.decision.consensus_result = decision.consensus_result
   /\ prev.decision.validators_agreed = decision.validators_agreed) =>
    /\ decision.primary_agent = prev.decision.primary_agent
    /\ decision.confidence_score = prev.decision.confidence_score

InUnit(x) == x \in 0..One

\* C10: each of the eight expert scores, the final weighted score of every
\* agent and the confidence score of every returned decision lie in [0,1],
\* also when experts raise and are replaced by the neutral value.
C10_ScoresInUnitInterval ==
  /\ \A a \in Agents : InUnit(agentScores[a])
  /\ \A a \in Agents : \A name \in Range(ExpertNames) : InUnit(expertCache[a][name])
  /\ InUnit(decision.confidence_score)
  /\ InUnit(decision.primary_score)

\* C10 witness: a primary decision after the similarity expert raised; the
\* recency expert of a1 is held at the upper end
C10_Witness ==
  /\ PrimaryDecision
  /\ req = ReqSecurity
  /\ faults = {"expert_error", "similarity"}
  /\ expertCache["a1"]["similarity"] = Neutral
  /\ expertCache["a1"]["recency"] = One
  /\ decision.confidence_score > 0

\* the confidence of each strategy and the ceiling of the degraded paths, in
\* units of 1/One
StatedConfidence ==
  [alternatives |-> 7000, skill_match |-> 6000, success_history |-> 5500,
   round_robin |-> 4000, default_agent |-> 3000]

\* C11: every decision of the fallback chain carries the tag of one of the
\* five strategies and the confidence fixed for it (0.7, 0.6, 0.55, 0.4,
\* 0.3); a strategy later in the chain yields a strictly lower confidence
\* than every strategy before it, and none exceeds 0.7.
C11_FallbackTagAndConfidence ==
  (FallbackReturned /\ decision.kind = "decision") =>
    /\ decision.fallback_applied # NULL
    /\ decision.fallback_applied \in StrategyNames
    /\ decision.confidence_score = StatedConfidence[decision.fallback_applied]
    /\ decision.confidence_score <= 7000
    /\ \A s \in StrategyNames :
         StrategyRank[s] < StrategyRank[decision.fallback_applied] =>
           decision.confidence_score < FallbackConfidence[s]

\* C11 witness: the fourth strategy answers, with confidence 0.4, after a
\* strategy before it raised
C11_Witness ==
  /\ FallbackReturned
  /\ decision.kind = "decision"
  /\ decision.fallback_applied = "round_robin"
  /\ decision.confidence_score = 4000
  /\ faults # {}

\* the route is inside APPLY_FALLBACK_STRATEGY
InFallback == pc = "fallback"

\* C12: every invocation of the fallback chain ends; it ends with a decision
\* tagged by one of the five selection strategies or with the terminal
\* error; the error is thrown only when each of the five strategies raised
\* or had no agent to offer, and it carries the failure reason the chain was
\* entered with, which the chain never alters.
C12_FallbackTerminates ==
  /\ InFallback ~> FallbackReturned
  /\ [](FallbackReturned =>
          \/ /\ path = "fallback"
             /\ decision.kind = "decision"
             /\ decision.fallback_applied \in StrategyNames
          \/ /\ path = "fallback_exhausted"
             /\ decision.kind = "thrown"
             /\ \A s \in StrategyNames : s \in faults \/ ~CanSucceed(s, req))
  /\ [][(InFallback /\ pc' = "fallback") => failureReason' = failureReason]_vars
  /\ [][(InFallback /\ path' = "fallback_exhausted" /\ pc' = "idle") =>
          (failureReason \in FailureReasons /\ decision'.reasoning = failureReason)]_vars

\* C12 witness: the chain ended in the terminal error, carrying the reason
\* of a failed consensus, after one strategy raised and the others found no
\* agent
C12_Witness ==
  /\ FallbackReturned
  /\ path = "fallback_exhausted"
  /\ decision.kind = "thrown"
  /\ decision.reasoning = "Consensus failed: ESCALATE"
  /\ faults = {"skill_match"}

\* C13 as stated: a route throws only when the request is invalid or the
\* fallback chain is exhausted; a route in which any other phase failed
\* returns a decision that carries a reason string.
C13_AsStated ==
  RouteReturned =>
    /\ decision.kind = "thrown" => (~req.valid \/ path = "fallback_exhausted")
    /\ (decision.kind # "thrown" /\ faults # {}) => decision.reasoning # ""

\* everything a route reads or writes apart from the ProfileStore
RouteState == <<cache, altCache, auditTrail, rrPointer, rrSelections,
                agreementCount, expertCache, peer, embeddingCache, embedCalls,
                updaters, now, script, reqCount,
                pc, req, faults, candidates, agentProfiles, agentScores,
                rankedAgents, taskOutcome, validatorResults, elapsed,
                consensusResult, fbIndex, failureReason, path, decision, prev>>

\* C14: no step of a route writes the ProfileStore: the store changes only
\* in a step that leaves every route untouched (the post-execution update),
\* and as long as no update ran its content is the initial content, whatever
\* routes (cache hit, primary, metadata, fallback, error) have returned.
C14_RoutingNeverWritesProfiles ==
  /\ [][profiles' # profiles => UNCHANGED RouteState]_vars
  /\ [](UpdatesApplied = 0 => \E avail \in Availabilities : profiles = Pool(avail))

\* C14 witness: two routes have returned, the second through the fallback
\* chain, and no update ran
C14_Witness ==
  /\ RouteReturned
  /\ reqCount = 2
  /\ path = "fallback"
  /\ UpdatesApplied = 0
  /\ \E avail \in Availabilities : profiles = Pool(avail)

\* C15: a decision built from a ranking names as primary an eligible agent
\* whose final score no eligible agent exceeds, and as alternatives the next
\* best eligible agents in descending order of score: at most three, as many
\* as there are further eligible agents, each distinct from the primary and
\* from the alternatives before it.
C15_PrimaryAndAlternativesByRank ==
  [][(pc = "confidence" /\ pc' = "idle") =>
       LET eligible == Range(IdsOf(agentProfiles))
           alts == decision'.alternatives
           chosen(i) == {decision'.primary_agent} \cup {alts[j] : j \in 1..i}
           rest == Cardinality(eligible) - 1
       IN /\ decision'.primary_agent \in eligible
          /\ \A e \in eligible :
               agentScores[decision'.primary_agent] >= agentScores[e]
          /\ Len(alts) = IF rest < 3 THEN rest ELSE 3
          /\ \A i \in 1..Len(alts) :
               /\ alts[i] \in eligible \ chosen(i - 1)
               /\ \A e \in eligible \ chosen(i - 1) :
                    agentScores[alts[i]] >= agentScores[e]]_vars

\* C15 witness: a decision with three alternatives out of five eligible
\* agents, the primary not being the first agent loaded
C15_Witness ==
  /\ PrimaryDecision
  /\ Len(decision.alternatives) = 3
  /\ decision.primary_agent = "a4"
  /\ Cardinality(Range(decision.alternatives) \cup {decision.primary_agent}) = 4

\* the step is a cache hit of a route
CacheHitStep == pc = "idle" /\ pc' = "idle" /\ reqCount' = reqCount + 1 /\ path' = "cache"

RateInSnapshot(agent) ==
  SuccessRateOf(agent, EXTRACT_PATTERN_TYPE(req.metadata))

\* the success rate of the same agent as EXPERT_RECENCY,
\* VALIDATE_SUCCESS_RATE and the fallback decision builder obtain it
RateInStore(agent) ==
  GET_SUCCESS_RATE(agent.agent_id, EXTRACT_PATTERN_TYPE(req.metadata))

\* C17 as stated: when the experts of a route are about to score the
\* eligible agents, the success rate each of them reads for an agent is one
\* and the same value, whether or not a profile update ran since the
\* profiles were loaded.
C17_AsStated ==
  pc = "score" =>
    LET eligibleAgents == FILTER_AGENTS(agentProfiles, req.constraints,
                                        req.excluded_agents)
    IN \A i \in 1..Len(eligibleAgents) :
         RateInSnapshot(eligibleAgents[i]) = RateInStore(eligibleAgents[i])

\* the scoring pass of the running route is over
Scored == pc \notin {"idle", "score", "rank"} /\ rankedAgents # <<>>

\* the experts that failed in the scoring pass of the running route
RaisedExperts ==
  (faults \cap Range(ExpertNames))
    \cup (IF EXTRACT_PRIORITY(req.metadata) \in DOMAIN priorityLatencies
          THEN {} ELSE {"latency_fit"})

\* C18: experts failing inside a scoring pass do not abort it: every
\* eligible agent is scored and ranked, each failed expert contributes 0.5,
\* every other expert contributes its own clamped evaluation, and the final
\* score is the clamped weighted sum of the eight contributions.
C18_ExpertFailureIsNeutral ==
  Scored =>
    LET eligibleIds == IdsOf(FILTER_AGENTS(agentProfiles, req.constraints,
                                           req.excluded_agents))
    IN /\ Range(rankedAgents) = Range(eligibleIds)
       /\ Len(rankedAgents) = Len(eligibleIds)
       /\ \A a \in Range(eligibleIds) :
            /\ \A name \in Range(ExpertNames) :
                 expertCache[a][name] =
                   IF name \in RaisedExperts THEN 5000
                   ELSE CLAMP(RawExpert(name, ProfileOf(agentProfiles, a), req, Ctx,
                                        candidates), 0, One)
            /\ agentScores[a] = CLAMP(WeightedSum(expertCache[a]) \div 100, 0, One)

\* C18 witness: the success-rate expert alone failed; the three eligible
\* agents are ranked, a1 with 0.5 in place of its success rate of 0.95 and
\* its similarity evaluated as usual
C18_Witness ==
  /\ pc = "confidence"
  /\ req = ReqPlain
  /\ RaisedExperts = {"success_rate"}
  /\ Len(rankedAgents) = 3
  /\ expertCache["a1"]["success_rate"] = 5000
  /\ EXPERT_SUCCESS_RATE(ProfileOf(agentProfiles, "a1"),
                         EXTRACT_PATTERN_TYPE(req.metadata)) # 5000
  /\ expertCache["a1"]["similarity"] =
       EXPERT_SIMILARITY("a1", candidates, EXTRACT_SIMILARITY_SCORES(candidates))

\* C19: a step of the fallback chain in which a strategy raises returns
\* nothing to the caller: the chain stays entered and moves to the next
\* strategy in order; and whenever a strategy that did not raise has an
\* agent to offer, the caller receives a decision from a strategy that did
\* not raise, however many others raised.
C19_StrategyErrorContained ==
  /\ [][(InFallback /\ faults' # faults) =>
          /\ fallbackChain[fbIndex] \in StrategyNames
          /\ faults' = faults \cup {fallbackChain[fbIndex]}
          /\ pc' = "fallback"
          /\ fbIndex' = fbIndex + 1
          /\ StrategyRank[fallbackChain[fbIndex']] = StrategyRank[fallbackChain[fbIndex]] + 1
          /\ decision' = decision
          /\ path' = path]_vars
  /\ []((FallbackReturned /\ faults # {}
          /\ \E s \in StrategyNames \ faults : CanSucceed(s, req)) =>
          /\ decision.kind = "decision"
          /\ decision.fallback_applied \in StrategyNames \ faults)

\* C19 witness: the first three strategies raised and the fourth returned
\* the decision
C19_Witness ==
  /\ FallbackReturned
  /\ faults = {"alternatives", "skill_match", "success_history"}
  /\ decision.kind = "decision"
  /\ decision.fallback_applied = "round_robin"

\* the route that just returned failed to log or cache its decision
PersistFailed == RouteReturned /\ "persist_error" \in faults

\* the route before handled the same request on the primary path and failed
\* to persist; the route that just returned handled it without any failure
\* and with the same consensus outcome
RerunAfterPersistFailure ==
  /\ RouteReturned
  /\ prev.valid
  /\ prev.faults = {"persist_error"}
  /\ prev.path = "primary"
  /\ faults = {}
  /\ path = "primary"
  /\ decision.consensus_result = prev.decision.consensus_result
  /\ decision.validators_agreed = prev.decision.validators_agreed

\* C20: a route whose logging or caching of the decision fails still
\* returns a decision of the primary path naming its primary agent, and
\* that decision has the primary agent and the confidence of the decision
\* the same request gets when persistence succeeds.
C20_PersistFailureNonFatal ==
  /\ PersistFailed =>
       /\ path = "primary"
       /\ decision.kind = "decision"
       /\ decision.primary_agent \in Agents
  /\ RerunAfterPersistFailure =>
       /\ prev.decision.primary_agent = decision.primary_agent
       /\ prev.decision.confidence_score = decision.confidence_score
       /\ prev.decision.alternatives = decision.alternatives

\* C20 witness: a request answered after a persistence failure is routed
\* again without failure and stored this time
C20_Witness ==
  /\ RerunAfterPersistFailure
  /\ prev.decision.kind = "decision"
  /\ prev.decision.decision_id = 1
  /\ decision.decision_id = 2
  /\ cache[req] = decision

\* ------------------------------------------------------------------------
\* C21: abstentions
\* ------------------------------------------------------------------------
\* a step of the collection loop, and the task it waited for
CollectStep == pc = "collect" /\ Len(validatorResults') = Len(validatorResults) + 1
CollectedTask == Len(validatorResults) + 1
TaskFailed ==
  \/ taskOutcome[CollectedTask] = "error"
  \/ elapsed' - elapsed >= TaskTimeoutMs
CountFalse(results) == Cardinality({i \in 1..Len(results) : results[i] = "false"})

\* C21: a validator that raises an error or does not complete within its
\* wait is recorded as an abstention: the collection goes on to the next
\* task (or to the count) as long as the group deadline holds and never
\* ends in an error, and the abstention adds neither to the agreements nor
\* to the explicit disagreements; the count of agreements that decides the
\* consensus is the count of true outcomes.
C21_FailedValidatorAbstains ==
  [][/\ (CollectStep /\ TaskFailed) =>
          /\ validatorResults'[CollectedTask] = "null"
          /\ COUNT_NULL(validatorResults') = COUNT_NULL(validatorResults) + 1
          /\ COUNT_TRUE(validatorResults') = COUNT_TRUE(validatorResults)
          /\ CountFalse(validatorResults') = CountFalse(validatorResults)
          /\ consensusResult' # "ERROR"
          /\ elapsed' <= ConsensusTimeoutMs => pc' \in {"collect", "determine"}
     /\ (pc = "determine" /\ pc' = "consensus_done") =>
          /\ agreementCount' = COUNT_TRUE(validatorResults)
          /\ consensusResult' =
               DetermineConsensus(COUNT_TRUE(validatorResults),
                                  COUNT_NULL(validatorResults))]_vars

\* C21 witness: one validator raised, another timed out, both were recorded
\* as abstentions and the three remaining agreements approved the agent
C21_Witness ==
  /\ ConsensusReturned
  /\ AllReported
  /\ consensusResult = "APPROVE"
  /\ \E i, j \in 1..Validators :
       /\ taskOutcome[i] = "error" /\ validatorResults[i] = "null"
       /\ taskOutcome[j] # "error" /\ validatorResults[j] = "null"
  /\ COUNT_TRUE(validatorResults) = 3
  /\ CountFalse(validatorResults) = 0

\* ------------------------------------------------------------------------
\* C22: when the validators run
\* ------------------------------------------------------------------------
CriticalCategories == {"security", "compliance"}
CriticalPriorities == {"high", "critical"}
FlaggedOrCritical(r) ==
  \/ r.constraints.require_consensus
  \/ r.metadata.type \in CriticalCategories
  \/ r.metadata.priority \in CriticalPriorities
ValidatorsStarted == pc # "collect" /\ pc' = "collect"
ConsensusInvoked == ValidatorsStarted \/ (pc = "score" /\ consensusResult' = "ERROR")
ReturnStep == pc # "idle" /\ pc' = "idle"

LatestSelections(n) ==
  {rrSelections[i] : i \in (Len(rrSelections) - n + 1)..Len(rrSelections)}

RecentFirst(wins) ==
  \A i \in 1..Len(wins), j \in 1..Len(wins) :
     i < j => wins[i].age_min <= wins[j].age_min
Updated(a) == profiles'[a] # profiles[a]

\* C24: after any sequence of post-execution updates an agent's
\* recent-outcome list holds at most 10 entries, the most recent first, and
\* every update puts the outcome just reported at the front (the outcome
\* the new success rate was computed from), keeps the earlier entries in
\* their order behind it and drops only what falls beyond the tenth place:
\* the list is the outcomes of the agent's latest 10 (or fewer) executions.
C24_RecentOutcomesLatestTen ==
  /\ [](\A a \in Agents :
          /\ Len(profiles[a].recent_wins) <= 10
          /\ RecentFirst(profiles[a].recent_wins))
  /\ [][\A a \in Agents :
          Updated(a) =>
            LET old == profiles[a].recent_wins
                new == profiles'[a].recent_wins
                type == new[1].pattern_type
            IN /\ Len(new) = IF Len(old) < 10 THEN Len(old) + 1 ELSE 10
               /\ new[1].age_min = 0
               /\ profiles'[a].success_rate_by_type[type] =
                    (9 * profiles[a].success_rate_by_type[type]
                       + (IF new[1].success THEN One ELSE 0)) \div 10
               /\ \A i \in 2..Len(new) : new[i] = old[i - 1]]_vars

\* C24 witness: a full list of ten took three more outcomes; the three
\* oldest entries are gone and the seven that remain follow the new ones
C24_Witness ==
  LET wins == profiles["a1"].recent_wins IN
  /\ Len(wins) = 10
  /\ \A i \in 1..3 : wins[i].age_min = 0
  /\ \A i \in 4..10 : wins[i] = OldWins(10)[i - 3]

\* ------------------------------------------------------------------------
\* C25: the audit trail
\* ------------------------------------------------------------------------
\* C25 as stated: every routing decision returned to a caller, whichever
\* path produced it, has been written to the audit trail before the return.
C25_AsStated ==
  (RouteReturned /\ decision.kind = "decision") =>
    decision.decision_id \in auditTrail

\* ------------------------------------------------------------------------
\* C26: updates and the next decision
\* ------------------------------------------------------------------------
\* the score the primary path computes for an agent from the store as it is
FreshScore(agentId) ==
  COMPUTE_EXPERT_SCORE(profiles[agentId], req, Ctx, HnswCandidates, {})

\* C26 as stated: a decision returned for a repeated request after a
\* post-execution update has completed reflects the updated success rate:
\* the score it reports for its primary agent is the score computed from
\* the agent's profile as the store now holds it.
C26_AsStated ==
  (RouteReturned /\ path = "cache" /\ decision.kind = "decision") =>
    decision.primary_score = FreshScore(decision.primary_agent)

\* ------------------------------------------------------------------------
\* C27: clear winner
\* ------------------------------------------------------------------------
\* the gap between the primary agent's score and the runner-up's
ScoreGap == agentScores[rankedAgents[1]] - agentScores[rankedAgents[2]]

\* C27 as stated: whenever the primary agent's score exceeds the
\* runner-up's by more than 0.3, the calibrated confidence of the decision
\* built from the ranking is above 0.85.
C27_AsStated ==
  [][(/\ pc = "confidence" /\ pc' = "idle"
      /\ faults' = {}
      /\ decision'.kind = "decision"
      /\ Len(rankedAgents) >= 2
      /\ ScoreGap > 3000)
       => decision'.confidence_score > 8500]_vars

\* ------------------------------------------------------------------------
\* C28, C29: the similarity expert
\* ------------------------------------------------------------------------
Tested(a) == pc = "test_similarity" /\ expertCache[a].similarity # NONE
Result(a) == expertCache[a].similarity
Listed(a) == \E i \in 1..Len(candidates) : candidates[i].agent_id = a
\* position of a listed agent, counted from 0, its similarity and the
\* largest similarity of the list
PositionOf(a) == (CHOOSE i \in 1..Len(candidates) : candidates[i].agent_id = a) - 1
SimilarityOf(a) == candidates[PositionOf(a) + 1].similarity
TopSimilarity ==
  CHOOSE m \in SimilarityLevels :
    /\ \E i \in 1..Len(candidates) : candidates[i].similarity = m
    /\ \A i \in 1..Len(candidates) : candidates[i].similarity <= m
Discounted(ratio, position) == (ratio * (One - 200 * position)) \div One

Degenerate ==
  \A i \in 1..Len(candidates), j \in 1..Len(candidates) :
     candidates[i].similarity = candidates[j].similarity

Coverage(a) ==
  Cardinality({s \in Range(EXTRACT_SKILLS(req.metadata)) : s \in profiles[a].skills})

\* C30 as stated: the agent of a skill_match decision is, among all
\* currently available agents, one whose skill set covers the largest part
\* of the required skills, the success rate deciding only between agents
\* that cover equally much.
C30_AsStated ==
  (FallbackReturned /\ decision.fallback_applied = "skill_match") =>
    \A b \in Range(GET_AVAILABLE_AGENTS) :
       /\ Coverage(b) <= Coverage(decision.primary_agent)
       /\ Coverage(b) = Coverage(decision.primary_agent) =>
            profiles[b].success_rate_default
              <= profiles[decision.primary_agent].success_rate_default

\* the eight expert scores computed for the request of the coordinating task
OwnExpertScores(agentId) ==
  ExpertScores(profiles[agentId], req, Ctx, HnswCandidates, {})

\* C31: when two requests that score the same agent are routed at the same
\* time, the scoring_breakdown of each returned decision equals the eight
\* expert scores computed for that request, never those of the other request.
C31_AsStated ==
  /\ (RouteReturned /\ path = "primary" /\ req.explain_reasoning /\ faults = {})
       => decision.scoring_breakdown = OwnExpertScores(decision.primary_agent)
  /\ (peer.pc = "done" /\ peer.req.explain_reasoning)
       => peer.scoring_breakdown =
            ExpertScores(profiles[peer.primary], peer.req, Ctx, HnswCandidates, {})

Embedding == pc \in EmbedPositions

\* C32: embedding generation under rate limiting terminates: after at most
\* three retries that are all rate-limited the embedding step stops retrying
\* and the request falls back to metadata routing, so the route finishes
\* even if the embedding service rejects every call.  Stated here by what it
\* implies: a route that is generating an embedding eventually leaves
\* EMBED_PATTERN.
C32_AsStated == Embedding ~> ~Embedding

\* a decision that came from ROUTE_BY_METADATA or APPLY_FALLBACK_STRATEGY
DegradedDecision ==
  RouteReturned /\ path \in {"metadata", "fallback"} /\ decision.kind = "decision"

\* C33: no decision produced by a degraded path (a fallback strategy or
\* metadata routing) names as primary an agent of the request's
\* excluded-agents list.
C33_AsStated ==
  DegradedDecision => decision.primary_agent \notin req.excluded_agents

\* the route builds and returns its primary-path decision
BuildsPrimaryDecision ==
  pc = "confidence" /\ pc' = "idle" /\ path' = "primary" /\ decision'.kind = "decision"

\* C34: the primary agent of every primary-path decision is available
\* (is_available in the profile snapshot the route loaded) when the decision
\* is built, whether or not consensus validation ran for the request.
C34_AsStated ==
  [][BuildsPrimaryDecision =>
       ProfileOf(agentProfiles, decision'.primary_agent).is_available]_vars

\* the update tasks that completed an update of agent a
DoneFor(a) == {u \in UpdateTasks : updaters[u].pc = "done" /\ updaters[u].agent_id = a}

\* the outcomes stamped by the updates in a's recent-outcome list
NewOutcomes(a) ==
  {i \in 1..Len(profiles[a].recent_wins) : profiles[a].recent_wins[i].age_min = 0}

\* the success rate of type t after the samples s1 then s2
RateAfter(rate, s1, s2) ==
  COMPUTE_NEW_SUCCESS_RATE(COMPUTE_NEW_SUCCESS_RATE(rate, s1), s2)

\* the rate a had for type t before any update: Pool never changes it
InitialRate(a, t) == Pool([b \in Agents |-> TRUE])[a].success_rate_by_type[t]

\* C35: two post-execution updates of the same agent that run concurrently
\* lose nothing: after both complete, in every interleaving, both outcomes
\* are in the agent's recent-outcome list and the success rate reflects both
\* samples.
C35_AsStated ==
  \A a \in Agents :
    (DoneFor(a) = UpdateTasks) =>
      /\ Cardinality(NewOutcomes(a)) = Cardinality(UpdateTasks)
      /\ updaters[1].pattern_type = updaters[2].pattern_type =>
           profiles[a].success_rate_by_type[updaters[1].pattern_type] \in
             { RateAfter(InitialRate(a, updaters[1].pattern_type),
                         updaters[1].success, updaters[2].success),
               RateAfter(InitialRate(a, updaters[1].pattern_type),
                         updaters[2].success, updaters[1].success) }

\* the time for which agent a was marked unavailable is over
WindowOver(a) ==
  /\ profiles[a].unavailable_until # NONE
  /\ now > profiles[a].unavailable_until

\* C36: an agent marked unavailable after more than three consecutive
\* failures becomes available again: once its unavailable_until time (300
\* seconds later) has passed, the agent is again selectable by routing
\* without a further execution of that agent.
C36_AsStated ==
  \A a \in Agents : WindowOver(a) => IS_AVAILABLE(a)

\* patterns whose iteration of the loop is over
Completed ==
  IF script.pc = "delay" THEN script.i + 1 ELSE script.i

Increasing(list) == \A j, k \in 1..Len(list) : j < k => list[j] < list[k]

\* C37: the embedding script processes every loaded pattern exactly once and
\* in order: a failure to embed one pattern does not stop the run, and when
\* insertPatterns returns each pattern is in exactly one of the embedded and
\* failed lists, so embedded plus failed equals the total.
C37_EveryPatternExactlyOnce ==
  script.pc # "off" =>
    /\ Increasing(script.embedded) /\ Increasing(script.failed)
    /\ Range(script.embedded) \cap Range(script.failed) = {}
    /\ Range(script.embedded) \cup Range(script.failed) = 0..(Completed - 1)
    /\ Len(script.issued) = IF script.pc = "await" THEN Completed + 1 ELSE Completed
    /\ script.pc = "done" =>
         /\ Completed = script.total
         /\ Len(script.embedded) + Len(script.failed) = script.total

\* the run returned after a pattern failed and a later one was embedded
C37_Witness ==
  /\ script.pc = "done"
  /\ script.total = MaxPatterns
  /\ \E j \in 1..Len(script.failed), k \in 1..Len(script.embedded) :
       script.failed[j] < script.embedded[k]

\* C38: after every embedding request (succeeded, failed or rate-limited with
\* HTTP 429) the rate-limit delay elapses before the next request is started:
\* two consecutive requests are never issued without the delay between them.
C38_AsStated ==
  \A k \in 2..Len(script.issued) : script.issued[k]

====
